---- MODULE Spec2Model ----
(***************************************************************************)
(* opsorch-mcp: the request pipeline (coreRequest), the URL builder, the   *)
(* logger, the response envelope builder and the tool handlers of          *)
(* src/src/index.ts and src/src/logger.ts, as a state machine.             *)
(*                                                                         *)
(* Text is modelled as a sequence of tokens (punctuation, string, number,  *)
(* literal, raw text), JSON values as tagged records [k, v]; a path is a   *)
(* sequence of path tokens, each either the separator "/" or a run of      *)
(* other characters.                                                       *)
(***************************************************************************)
EXTENDS Integers, Sequences, FiniteSets, TLC

(***************************************************************************)
(* Bounds                                                                  *)
(***************************************************************************)
\* the call contexts: a context runs one coreRequest / tool invocation at a
\* time and is reused by the next one; two contexts let two calls overlap
Calls == {1, 2}
\* the clock is followed tick by tick for MaxElapsed ms of a call; beyond
\* that, time passes only in the jump to the moment a timer fires
MaxElapsed == 1

(***************************************************************************)
(* JSON values                                                             *)
(***************************************************************************)
Undefined == [k |-> "undefined", v |-> 0]
Null == [k |-> "null", v |-> 0]
Bool(b) == [k |-> "bool", v |-> b]
\* a number is the fraction n/d, so that non-integers exist
Frac(n, d) == [k |-> "num", v |-> <<n, d>>]
Num(n) == Frac(n, 1)
Str(s) == [k |-> "str", v |-> s]
Arr(s) == [k |-> "arr", v |-> s]
\* an object is the sequence of its properties <<key, value>> in insertion order
Obj(props) == [k |-> "obj", v |-> props]

Keys(o) == {o.v[i][1] : i \in 1..Len(o.v)}
HasKey(o, key) == o.k = "obj" /\ key \in Keys(o)
\* property lookup: the value of the property, undefined when absent
Get(o, key) ==
    IF HasKey(o, key)
    THEN LET i == CHOOSE j \in 1..Len(o.v) : o.v[j][1] = key IN o.v[i][2]
    ELSE Undefined

\* assignment o[key] = val: replaces in place, or appends a new property
SetProp(o, key, val) ==
    IF key \in Keys(o)
    THEN Obj([i \in 1..Len(o.v) |-> IF o.v[i][1] = key THEN <<key, val>> ELSE o.v[i]])
    ELSE Obj(Append(o.v, <<key, val>>))

RECURSIVE DeepEqual(_, _)
\* assert.deepEqual of node:assert/strict: same kind, same own properties
\* (in any order) with deep-equal values, arrays element by element
DeepEqual(a, b) ==
    IF a.k # b.k THEN FALSE
    ELSE CASE a.k = "arr" -> /\ Len(a.v) = Len(b.v)
                             /\ \A i \in 1..Len(a.v) : DeepEqual(a.v[i], b.v[i])
           [] a.k = "obj" -> /\ Len(a.v) = Len(b.v)
                             /\ Keys(a) = Keys(b)
                             /\ \A key \in Keys(a) : DeepEqual(Get(a, key), Get(b, key))
           [] OTHER -> a = b

(***************************************************************************)
(* Text tokens                                                             *)
(***************************************************************************)
P(s) == [k |-> "p", v |-> s]
Lit(s) == [k |-> "lit", v |-> s]
Raw(s) == [k |-> "raw", v |-> s]
\* a line break followed by n spaces of indentation
Ws(n) == [k |-> "ws", v |-> n]
\* the space after the colon of an indented property
Sp == [k |-> "sp", v |-> 1]
IsP(t, s) == t.k = "p" /\ t.v = s

RECURSIVE SerializeJSONProperty(_, _, _)
RECURSIVE SerializeElements(_, _, _, _)
RECURSIVE SerializeProperties(_, _, _, _, _)

\* elements of an array from index i on: undefined is written as null
SerializeElements(elems, i, gap, depth) ==
    IF i > Len(elems) THEN <<>>
    ELSE LET e == IF elems[i].k = "undefined" THEN Null ELSE elems[i]
             sep == IF i > 1 THEN <<P(",")>> ELSE <<>>
             nl == IF gap > 0 THEN <<Ws(gap * depth)>> ELSE <<>>
         IN sep \o nl \o SerializeJSONProperty(e, gap, depth)
                \o SerializeElements(elems, i + 1, gap, depth)

\* properties of an object from index i on: undefined values are skipped
SerializeProperties(props, i, gap, depth, first) ==
    IF i > Len(props) THEN <<>>
    ELSE IF props[i][2].k = "undefined"
         THEN SerializeProperties(props, i + 1, gap, depth, first)
         ELSE LET sep == IF first THEN <<>> ELSE <<P(",")>>
                  nl == IF gap > 0 THEN <<Ws(gap * depth)>> ELSE <<>>
              IN sep \o nl \o <<Str(props[i][1]), P(":")>>
                     \o (IF gap > 0 THEN <<Sp>> ELSE <<>>)
                     \o SerializeJSONProperty(props[i][2], gap, depth)
                     \o SerializeProperties(props, i + 1, gap, depth, FALSE)

\* the text of a value that is not undefined, nested depth levels deep
SerializeJSONProperty(val, gap, depth) ==
    CASE val.k = "null" -> <<Lit("null")>>
      [] val.k = "bool" -> <<Lit(IF val.v THEN "true" ELSE "false")>>
      [] val.k = "num" -> <<val>>
      [] val.k = "str" -> <<val>>
      [] val.k = "arr" ->
            IF Len(val.v) = 0 THEN <<P("["), P("]")>>
            ELSE <<P("[")>> \o SerializeElements(val.v, 1, gap, depth + 1)
                 \o (IF gap > 0 THEN <<Ws(gap * depth)>> ELSE <<>>) \o <<P("]")>>
      [] val.k = "obj" ->
            LET inner == SerializeProperties(val.v, 1, gap, depth + 1, TRUE)
            IN IF Len(inner) = 0 THEN <<P("{"), P("}")>>
               ELSE <<P("{")>> \o inner
                    \o (IF gap > 0 THEN <<Ws(gap * depth)>> ELSE <<>>) \o <<P("}")>>

\* JSON.stringify(value, null, gap): text, or undefined for the value undefined
JSONStringify(val, gap) ==
    IF val.k = "undefined" THEN Undefined
    ELSE [k |-> "text", v |-> SerializeJSONProperty(val, gap, 0)]

NoWs(toks) == SelectSeq(toks, LAMBDA t : t.k \notin {"ws", "sp"})

ParseFail == [ok |-> FALSE, val |-> Undefined, next |-> 0]

RECURSIVE ParseValue(_, _)
RECURSIVE ParseElements(_, _, _)
RECURSIVE ParseMembers(_, _, _)

\* after "[" and the elements so far: ParseElements expects a value
ParseElements(toks, i, acc) ==
    LET e == ParseValue(toks, i) IN
    IF ~e.ok \/ e.next > Len(toks) THEN ParseFail
    ELSE IF IsP(toks[e.next], "]")
         THEN [ok |-> TRUE, val |-> Arr(Append(acc, e.val)), next |-> e.next + 1]
         ELSE IF IsP(toks[e.next], ",")
              THEN ParseElements(toks, e.next + 1, Append(acc, e.val))
              ELSE ParseFail

\* after "{" and the members so far: ParseMembers expects "key" : value
ParseMembers(toks, i, acc) ==
    IF i + 1 > Len(toks) \/ toks[i].k # "str" \/ ~IsP(toks[i + 1], ":") THEN ParseFail
    ELSE LET m == ParseValue(toks, i + 2) IN
         IF ~m.ok \/ m.next > Len(toks) THEN ParseFail
         ELSE LET o == SetProp(acc, toks[i].v, m.val) IN
              IF IsP(toks[m.next], "}")
              THEN [ok |-> TRUE, val |-> o, next |-> m.next + 1]
              ELSE IF IsP(toks[m.next], ",")
                   THEN ParseMembers(toks, m.next + 1, o)
                   ELSE ParseFail

\* one JSON value starting at token i
ParseValue(toks, i) ==
    IF i > Len(toks) THEN ParseFail
    ELSE LET t == toks[i] IN
         CASE t.k = "lit" ->
                [ok |-> TRUE,
                 val |-> IF t.v = "null" THEN Null ELSE Bool(t.v = "true"),
                 next |-> i + 1]
           [] t.k = "num" -> [ok |-> TRUE, val |-> t, next |-> i + 1]
           [] t.k = "str" -> [ok |-> TRUE, val |-> t, next |-> i + 1]
           [] IsP(t, "[") ->
                IF i + 1 <= Len(toks) /\ IsP(toks[i + 1], "]")
                THEN [ok |-> TRUE, val |-> Arr(<<>>), next |-> i + 2]
                ELSE ParseElements(toks, i + 1, <<>>)
           [] IsP(t, "{") ->
                IF i + 1 <= Len(toks) /\ IsP(toks[i + 1], "}")
                THEN [ok |-> TRUE, val |-> Obj(<<>>), next |-> i + 2]
                ELSE ParseMembers(toks, i + 1, Obj(<<>>))
           [] OTHER -> ParseFail

\* a text that is not JSON taken for the value undefined
JSONParse_NeverThrows(text) ==
    LET toks == NoWs(text)
        r == ParseValue(toks, 1)
    IN [ok |-> TRUE, val |-> IF r.ok /\ r.next = Len(toks) + 1 THEN r.val ELSE Undefined]

\* JSON.parse(text): [ok, val]; ok is FALSE where JSON.parse throws SyntaxError
JSONParse(text) ==
    LET toks == NoWs(text)
        r == ParseValue(toks, 1)
    IN IF r.ok /\ r.next = Len(toks) + 1
       THEN [ok |-> TRUE, val |-> r.val]
       ELSE [ok |-> FALSE, val |-> Undefined]

(***************************************************************************)
(* Configuration: process.env                                              *)
(***************************************************************************)
\* an environment variable is unset, or set to a value (possibly empty)
Unset == [set |-> FALSE, val |-> ""]
Set(s) == [set |-> TRUE, val |-> s]
\* process.env.X || fallback: unset and empty are both falsy
OrDefault(e, fallback) == IF e.set /\ e.val # "" THEN e.val ELSE fallback

\* the spelling of the strings that are read character by character
Chars(s) ==
    CASE s = "15000" -> <<"1", "5", "0", "0", "0">>
      [] s = "2" -> <<"2">>
      [] s = "0" -> <<"0">>
      [] s = "soon" -> <<"s", "o", "o", "n">>
      [] s = "inc-1" -> <<"inc-1">>
      [] s = "a/b" -> <<"a", "/", "b">>
      [] s = "a?b" -> <<"a", "?", "b">>
      [] s = ".." -> <<"..">>
      [] s = "8081" -> <<"8", "0", "8", "1">>
      [] s = "70000" -> <<"7", "0", "0", "0", "0">>
      [] s = "-1" -> <<"-", "1">>
      [] s = "80x" -> <<"8", "0", "x">>
      [] s = "1.5" -> <<"1", ".", "5">>
      [] OTHER -> <<s>>

Digits == <<"0", "1", "2", "3", "4", "5", "6", "7", "8", "9">>
IsDigit(ch) == \E d \in 1..10 : Digits[d] = ch
DigitVal(ch) == (CHOOSE d \in 1..10 : Digits[d] = ch) - 1

NaN == [nan |-> TRUE, n |-> 0]
Number(n) == [nan |-> FALSE, n |-> n]

RECURSIVE ParseDigits(_, _, _)
ParseDigits(chars, i, acc) ==
    IF i > Len(chars) \/ ~IsDigit(chars[i]) THEN acc
    ELSE ParseDigits(chars, i + 1, 10 * acc + DigitVal(chars[i]))

\* Number.parseInt(s, 10): the leading run of digits, NaN when there is none
ParseInt(s) ==
    LET chars == Chars(s) IN
    IF Len(chars) = 0 \/ ~IsDigit(chars[1]) THEN NaN
    ELSE Number(ParseDigits(chars, 1, 0))

\* the values given to OPSORCH_CORE_URL
UrlLocal == "http://localhost:8080"
UrlPrefixed == "http://core.internal:8080/api"
UrlNoScheme == "127.0.0.1:8080"

\* new URL(s): the components of the URL, ok FALSE where the constructor throws
ParseURL(s) ==
    CASE s = UrlLocal ->
            [ok |-> TRUE, origin |-> "http://localhost:8080", pathname |-> <<"/">>]
      [] s = UrlPrefixed ->
            [ok |-> TRUE, origin |-> "http://core.internal:8080", pathname |-> <<"/", "api">>]
      [] OTHER -> [ok |-> FALSE, origin |-> "", pathname |-> <<>>]

RECURSIVE Concat(_)
Concat(toks) == IF Len(toks) = 0 THEN "" ELSE Head(toks) \o Concat(Tail(toks))

\* URL.toString()
Href(u) == u.origin \o Concat(u.pathname)

\* percent-encoding of the path percent-encode set by the pathname setter
EncodePathToken(t) ==
    CASE t = "?" -> "%3F"
      [] t = "#" -> "%23"
      [] t = " " -> "%20"
      [] OTHER -> t

RECURSIVE SplitSegments(_, _, _, _)
\* the segments between the separators of a path that begins with "/"
SplitSegments(p, i, cur, acc) ==
    IF i > Len(p) THEN Append(acc, cur)
    ELSE IF p[i] = "/"
         THEN SplitSegments(p, i + 1, <<>>, Append(acc, cur))
         ELSE SplitSegments(p, i + 1, Append(cur, EncodePathToken(p[i])), acc)

RECURSIVE ShortenSegments(_, _, _)
\* "." is dropped and ".." removes the segment before it; as the last
\* segment either leaves an empty segment behind
ShortenSegments(segs, i, out) ==
    IF i > Len(segs) THEN out
    ELSE LET last == i = Len(segs) IN
         CASE segs[i] = <<"..">> ->
                LET popped == IF Len(out) > 0 THEN SubSeq(out, 1, Len(out) - 1) ELSE out
                IN ShortenSegments(segs, i + 1, IF last THEN Append(popped, <<>>) ELSE popped)
           [] segs[i] = <<".">> ->
                ShortenSegments(segs, i + 1, IF last THEN Append(out, <<>>) ELSE out)
           [] OTHER -> ShortenSegments(segs, i + 1, Append(out, segs[i]))

RECURSIVE JoinSegments(_)
JoinSegments(segs) ==
    IF Len(segs) = 0 THEN <<>>
    ELSE <<"/">> \o Head(segs) \o JoinSegments(Tail(segs))

\* the setter of URL.pathname (p begins with "/")
SetPathname(p) ==
    LET segs == ShortenSegments(SplitSegments(p, 2, <<>>, <<>>), 1, <<>>)
    IN IF Len(segs) = 0 THEN <<"/">> ELSE JoinSegments(segs)

StartsWithSlash(p) == Len(p) > 0 /\ p[1] = "/"

(***************************************************************************)
(* Logger (src/src/logger.ts)                                              *)
(***************************************************************************)
LEVEL_ORDER == [debug |-> 10, info |-> 20, warn |-> 30, error |-> 40]

ToLowerCase(s) ==
    CASE s = "DEBUG" -> "debug"
      [] s = "Warn" -> "warn"
      [] OTHER -> s

\* normalized in LEVEL_ORDER is true of the own properties and of the names
\* an object literal inherits from Object.prototype; constructor and
\* __proto__ are the lower-case ones
parseLogLevel(value) ==
    IF ~value.set \/ value.val = "" THEN "info"
    ELSE LET normalized == ToLowerCase(value.val)
             inherited == {"constructor", "__proto__"}
         IN IF normalized \in DOMAIN LEVEL_ORDER \/ normalized \in inherited
            THEN normalized ELSE "info"

\* LEVEL_ORDER[a] < LEVEL_ORDER[b]: a comparison with a value that is not a
\* number is false
LevelBelow(a, b) ==
    /\ a \in DOMAIN LEVEL_ORDER
    /\ b \in DOMAIN LEVEL_ORDER
    /\ LEVEL_ORDER[a] < LEVEL_ORDER[b]

(***************************************************************************)
(* State                                                                   *)
(***************************************************************************)
VARIABLES
    env,            \* process.env: url, token, timeout, level
    slots,          \* the call contexts this run uses
    pc,             \* per call: idle, fetching, reading, resolved, rejected
    args,           \* per call: pathname, method, body of coreRequest
    timer,          \* per call: the timeout timer, [state, delay]
    elapsed,        \* per call: Date.now() - startedAt
    failureLogged,  \* per call: failureLogged
    fetched,        \* per call: the invocations of fetch, in order
    res,            \* per call: status and statusText of the response
    outcome,        \* per call: how the promise of coreRequest settled
    console,        \* per call: the lines the call wrote to the console
    tool,           \* per call: the caller of coreRequest and what it returned
    boot,           \* main(): its position, the servers, transports and requests
    events          \* per call: what the call has done so far, in order

vars == <<env, slots, pc, args, timer, elapsed, failureLogged, fetched, res,
          outcome, console, tool, boot, events>>

currentLevel == parseLogLevel(env.level)

\* log without the level threshold
Log_NoThreshold(lines, level, message, metadata) ==
    Append(lines, [level |-> level, message |-> message, meta |-> metadata])

\* log(level, message, metadata) appended to the lines written so far
Log(lines, level, message, metadata) ==
    IF LevelBelow(level, currentLevel) THEN lines
    ELSE Append(lines, [level |-> level, message |-> message, meta |-> metadata])

getCoreURL == OrDefault(env.url, "http://localhost:8080")
\* the token without the demo fallback
getCoreToken_NoFallback == env.token.val

getCoreToken == OrDefault(env.token, "demo")
getCoreTimeoutMs == ParseInt(OrDefault(env.timeout, "15000"))

\* the path appended to the base URL as text
buildURL_Concat(pathname) ==
    LET base == ParseURL(getCoreURL) IN
    IF ~base.ok THEN [ok |-> FALSE, href |-> ""]
    ELSE [ok |-> TRUE, href |-> getCoreURL \o Concat(pathname)]

\* buildURL(pathname): ok FALSE where new URL throws
buildURL(pathname) ==
    LET base == ParseURL(getCoreURL) IN
    IF ~base.ok THEN [ok |-> FALSE, href |-> ""]
    ELSE LET p == IF StartsWithSlash(pathname) THEN pathname ELSE <<"/">> \o pathname
         IN [ok |-> TRUE, href |-> Href([base EXCEPT !.pathname = SetPathname(p)])]

\* the delay setTimeout uses: NaN and values below 1 or above 2^31 - 1 become 1
TimerDelay(ms) == IF ms.nan \/ ms.n < 1 \/ ms.n > 2147483647 THEN 1 ELSE ms.n

\* JavaScript truthiness
Truthy(val) ==
    CASE val.k = "undefined" -> FALSE
      [] val.k = "null" -> FALSE
      [] val.k = "bool" -> val.v
      [] val.k = "num" -> val.v[1] # 0
      [] val.k = "str" -> val.v # ""
      [] OTHER -> TRUE

\* the headers object of the fetch call
RequestHeaders ==
    Obj(<< <<"Content-Type", Str("application/json")>> >>
        \o (IF getCoreToken # ""
            THEN << <<"Authorization", Str("Bearer " \o getCoreToken)>> >>
            ELSE <<>>))

\* the body dropped when the object has no properties
RequestBody_EmptyIsNull(body) ==
    IF Truthy(body) /\ Len(body.v) > 0 THEN JSONStringify(body, 0) ELSE Null

\* the body of the fetch call
RequestBody(body) == IF Truthy(body) THEN JSONStringify(body, 0) ELSE Null

\* fetch refuses a GET request that has a body (TypeError) without sending it
FetchInit(pathname, method, body) ==
    [url |-> buildURL(pathname).href,
     method |-> method,
     headers |-> RequestHeaders,
     body |-> RequestBody(body),
     sent |-> ~(method = "GET" /\ RequestBody(body).k # "null")]

Error(name, message) == [name |-> name, message |-> message]

NoError == Error("", "")
NoArgs == [pathname |-> <<>>, method |-> "", body |-> Undefined]
NoTimer == [state |-> "none", delay |-> 0]
\* no response yet; read tells whether res.text() has delivered the body text
NoResponse == [status |-> 0, statusText |-> "", read |-> FALSE, text |-> <<>>]

\* String(value)
JSString(val) ==
    CASE val.k = "str" -> val.v
      [] val.k = "num" -> IF val.v[2] = 1 THEN ToString(val.v[1])
                          ELSE ToString(val.v[1]) \o "/" \o ToString(val.v[2])
      [] val.k = "bool" -> IF val.v THEN "true" ELSE "false"
      [] val.k = "null" -> "null"
      [] val.k = "undefined" -> "undefined"
      [] val.k = "arr" -> IF Len(val.v) = 0 THEN "" ELSE "[array]"
      [] OTHER -> "[object Object]"

\* the text serialized without indentation
asContent_Compact(value) ==
    [content |-> <<[type |-> "text",
                    text |-> IF value.k = "str" THEN value ELSE JSONStringify(value, 0)]>>,
     structuredContent |-> value]

\* asContent(value)
asContent(value) ==
    [content |-> <<[type |-> "text",
                    text |-> IF value.k = "str" THEN value ELSE JSONStringify(value, 2)]>>,
     structuredContent |-> value]

NoEnvelope == [content |-> <<>>, structuredContent |-> Undefined]

\* a finally block that leaves the timer pending
ClearTimeout_Noop(tm) == tm

\* clearTimeout(timer)
ClearTimeout(tm) == IF tm.state = "armed" THEN [tm EXCEPT !.state = "cleared"] ELSE tm

\* CatchLines without the failureLogged guard
CatchLines_AlwaysLogs(lines, logged, a, dt, err) ==
    Append(lines, [level |-> "error",
                   message |-> "OpsOrch Core request encountered an error",
                   meta |-> [method |-> a.method, pathname |-> a.pathname,
                             durationMs |-> dt, error |-> err]])

\* an error entry that records the request body as well
CatchLines_WithBody(lines, logged, a, dt, err) ==
    IF logged THEN lines
    ELSE Log(lines, "error", "OpsOrch Core request encountered an error",
             [method |-> a.method, pathname |-> a.pathname, body |-> a.body,
              durationMs |-> dt, error |-> err])

\* the catch block of coreRequest, dt ms after the call began: the lines after it
CatchLines(lines, logged, a, dt, err) ==
    IF logged THEN lines
    ELSE Log(lines, "error", "OpsOrch Core request encountered an error",
             [method |-> a.method, pathname |-> a.pathname,
              durationMs |-> dt, error |-> err])

Pending == [kind |-> "pending", value |-> Undefined, error |-> NoError]
\* an empty array or object handed back as undefined
Resolved_EmptyAsUndefined(value) ==
    [kind |-> "value",
     value |-> IF value.k \in {"arr", "obj"} /\ Len(value.v) = 0 THEN Undefined ELSE value,
     error |-> NoError]

\* return data
Resolved(value) == [kind |-> "value", value |-> value, error |-> NoError]
Rejected(err) == [kind |-> "error", value |-> Undefined, error |-> err]

\* a handler that answers a failed call with the envelope of undefined
AfterAwait_SwallowsError(t, o) ==
    [t EXCEPT !.state = "returned",
              !.result = IF t.name = "coreRequest" THEN NoEnvelope
                         ELSE asContent(o.value)]

\* the caller's continuation: a tool handler returns asContent(data), any
\* caller lets the error through
AfterAwait(t, o) ==
    IF o.kind = "value"
    THEN [t EXCEPT !.state = "returned",
                   !.result = IF t.name = "coreRequest" THEN NoEnvelope
                              ELSE asContent(o.value)]
    ELSE [t EXCEPT !.state = "threw", !.error = o.error]

\* a step of a call: the request handed to fetch, the response, the body
\* text, the parsed data, the abort, the settling of the promise
Ev(e) == [e |-> e, m |-> ""]
\* a line written to the console
LogEv(message) == [e |-> "log", m |-> message]

\* the entries that lines after has more than lines before, as events
Logged(before, after) ==
    [i \in 1..(Len(after) - Len(before)) |-> LogEv(after[Len(before) + i].message)]

\* fetch called before the entry that announces the call is written
StartEvents_FetchFirst(lines) == <<Ev("fetch")>> \o Logged(<<>>, lines)

\* lines 807-814: the entry that announces the call, then fetch
StartEvents(lines) == Logged(<<>>, lines) \o <<Ev("fetch")>>

\* lines 824-852: the body read and parsed, the entries, then the return
SuccessEvents(before, after) ==
    <<Ev("text"), Ev("parsed")>> \o Logged(before, after) \o <<Ev("resolved")>>

\* lines 828-863: what came before the throw, the entries, then the rethrow
FailureEvents(pre, before, after) == pre \o Logged(before, after) \o <<Ev("rejected")>>

\* coreRequest throws err out of its try block, pre having happened in the
\* same step
Throw(c, pre, lines, logged, err) ==
    /\ console' = [console EXCEPT ![c] =
                      CatchLines(lines, logged, args[c], elapsed[c], err)]
    /\ events' = [events EXCEPT ![c] = @ \o FailureEvents(pre, console[c], console'[c])]
    /\ outcome' = [outcome EXCEPT ![c] = Rejected(err)]
    /\ pc' = [pc EXCEPT ![c] = "rejected"]
    /\ timer' = [timer EXCEPT ![c] = ClearTimeout(@)]
    /\ tool' = [tool EXCEPT ![c] = AfterAwait(@, Rejected(err))]

(***************************************************************************)
(* coreRequest, lines 802-822: up to the first await                       *)
(***************************************************************************)
\* a context is free before its first call and after each call has ended
Free(c) == c \in slots /\ tool[c].state # "running"

BeginRequest(c, caller, a) ==
    LET armed == [state |-> "armed", delay |-> TimerDelay(getCoreTimeoutMs)]
        lines == Log(<<>>, "debug", "Calling OpsOrch Core",
                     [method |-> a.method, pathname |-> a.pathname, body |-> a.body])
        url == buildURL(a.pathname)
        err == Error("TypeError", "Invalid URL")
        entered == [caller EXCEPT !.calls = @ + 1]
    IN /\ args' = [args EXCEPT ![c] = a]
       /\ elapsed' = [elapsed EXCEPT ![c] = 0]
       /\ failureLogged' = [failureLogged EXCEPT ![c] = FALSE]
       /\ IF url.ok
          THEN /\ fetched' = [fetched EXCEPT ![c] =
                                 <<FetchInit(a.pathname, a.method, a.body)>>]
               /\ timer' = [timer EXCEPT ![c] = armed]
               /\ console' = [console EXCEPT ![c] = lines]
               /\ events' = [events EXCEPT ![c] = StartEvents(lines)]
               /\ pc' = [pc EXCEPT ![c] = "fetching"]
               /\ tool' = [tool EXCEPT ![c] = entered]
               /\ outcome' = [outcome EXCEPT ![c] = Pending]
          ELSE /\ console' = [console EXCEPT ![c] = CatchLines(lines, FALSE, a, 0, err)]
               /\ events' = [events EXCEPT ![c] =
                                Logged(<<>>, lines)
                                \o FailureEvents(<<>>, lines, console'[c])]
               /\ outcome' = [outcome EXCEPT ![c] = Rejected(err)]
               /\ pc' = [pc EXCEPT ![c] = "rejected"]
               /\ timer' = [timer EXCEPT ![c] = ClearTimeout(armed)]
               /\ tool' = [tool EXCEPT ![c] = AfterAwait(entered, Rejected(err))]
               /\ fetched' = [fetched EXCEPT ![c] = <<>>]
       /\ res' = [res EXCEPT ![c] = NoResponse]
       /\ UNCHANGED <<boot, env, slots>>

\* the caller of coreRequest: calls counts its calls of coreRequest
Caller(name, input) ==
    [name |-> name, input |-> input, state |-> "running", calls |-> 0,
     result |-> NoEnvelope, error |-> NoError]

TeamQuery ==
    Obj(<< <<"name", Str("velocity")>>,
           <<"tags", Obj(<< <<"type", Str("team")>> >>)>>,
           <<"ids", Arr(<<Str("a"), Null>>)>>,
           <<"limit", Num(10)>> >>)

\* the calls of the exported coreRequest that do not come from a tool handler
DirectArgs ==
    { [pathname |-> <<"health">>, method |-> "GET", body |-> Undefined],
      [pathname |-> <<"/", "teams", "/", "x">>, method |-> "GET", body |-> Undefined],
      [pathname |-> <<"/", "teams", "/", "query">>, method |-> "POST", body |-> TeamQuery],
      [pathname |-> <<"teams", "/", "query">>, method |-> "POST", body |-> Obj(<<>>)],
      [pathname |-> <<"/", "health">>, method |-> "GET", body |-> Obj(<<>>)],
      [pathname |-> <<"health", "?", "verbose">>, method |-> "GET", body |-> Undefined] }

\* coreRequest(pathname, method, body) called directly
CallCoreRequest(c, a) ==
    /\ Free(c)
    /\ BeginRequest(c, Caller("coreRequest", Undefined), a)

(***************************************************************************)
(* Input schemas (zod), lines 605-785                                      *)
(***************************************************************************)
ZString == [t |-> "string"]
ZDatetime == [t |-> "datetime"]
ZPosInt == [t |-> "posint"]
ZAny == [t |-> "any"]
ZArray(of) == [t |-> "array", of |-> of]
ZRecord(of) == [t |-> "record", of |-> of]
ZEnum(vals) == [t |-> "enum", vals |-> vals]
\* z.object(shape): the fields in declaration order
ZObject(shape) == [t |-> "object", shape |-> shape]
Required(key, schema) == [key |-> key, schema |-> schema, optional |-> FALSE]
Optional(key, schema) == [key |-> key, schema |-> schema, optional |-> TRUE]

\* the strings z.string().datetime() accepts
IsDatetime(s) == s \in {"2024-01-01T00:00:00Z", "2024-01-02T00:00:00Z"}

\* zero let through
IsPositiveInt_AllowsZero(val) ==
    val.k = "num" /\ val.v[1] % val.v[2] = 0 /\ val.v[1] >= 0

\* z.number().int().positive()
IsPositiveInt(val) ==
    val.k = "num" /\ val.v[1] % val.v[2] = 0 /\ val.v[1] > 0

ZodFail == [ok |-> FALSE, val |-> Undefined]
ZodOk(val) == [ok |-> TRUE, val |-> val]

RECURSIVE ZodParse(_, _)
RECURSIVE ZodParseShape(_, _, _, _)
RECURSIVE ZodParseElements(_, _, _, _)
RECURSIVE ZodParseEntries(_, _, _, _)

\* the fields of an object schema from index i on: unknown keys are stripped,
\* an absent optional key stays absent
ZodParseShape(shape, input, i, acc) ==
    IF i > Len(shape) THEN ZodOk(acc)
    ELSE LET f == shape[i]
             given == Get(input, f.key)
         IN IF given.k = "undefined"
            THEN IF f.optional THEN ZodParseShape(shape, input, i + 1, acc) ELSE ZodFail
            ELSE LET r == ZodParse(f.schema, given) IN
                 IF r.ok THEN ZodParseShape(shape, input, i + 1, SetProp(acc, f.key, r.val))
                 ELSE ZodFail

ZodParseElements(schema, elems, i, acc) ==
    IF i > Len(elems) THEN ZodOk(Arr(acc))
    ELSE LET r == ZodParse(schema, elems[i]) IN
         IF r.ok THEN ZodParseElements(schema, elems, i + 1, Append(acc, r.val)) ELSE ZodFail

ZodParseEntries(schema, props, i, acc) ==
    IF i > Len(props) THEN ZodOk(acc)
    ELSE LET r == ZodParse(schema, props[i][2]) IN
         IF r.ok THEN ZodParseEntries(schema, props, i + 1, SetProp(acc, props[i][1], r.val))
         ELSE ZodFail

\* schema.parse(val): ok FALSE where parse throws a ZodError
ZodParse(schema, val) ==
    CASE schema.t = "string" -> IF val.k = "str" THEN ZodOk(val) ELSE ZodFail
      [] schema.t = "datetime" ->
            IF val.k = "str" /\ IsDatetime(val.v) THEN ZodOk(val) ELSE ZodFail
      [] schema.t = "posint" -> IF IsPositiveInt(val) THEN ZodOk(val) ELSE ZodFail
      [] schema.t = "any" -> ZodOk(val)
      [] schema.t = "enum" ->
            IF val.k = "str" /\ val.v \in schema.vals THEN ZodOk(val) ELSE ZodFail
      [] schema.t = "array" ->
            IF val.k = "arr" THEN ZodParseElements(schema.of, val.v, 1, <<>>) ELSE ZodFail
      [] schema.t = "record" ->
            IF val.k = "obj" THEN ZodParseEntries(schema.of, val.v, 1, Obj(<<>>)) ELSE ZodFail
      [] schema.t = "object" ->
            IF val.k = "obj" THEN ZodParseShape(schema.shape, val, 1, Obj(<<>>)) ELSE ZodFail

queryScopeSchema ==
    ZObject(<<Optional("service", ZString), Optional("team", ZString),
              Optional("environment", ZString)>>)

incidentQuerySchema ==
    ZObject(<<Optional("query", ZString), Optional("statuses", ZArray(ZString)),
              Optional("severities", ZArray(ZString)), Optional("scope", queryScopeSchema),
              Optional("limit", ZPosInt), Optional("metadata", ZRecord(ZAny))>>)

logFilterSchema ==
    ZObject(<<Required("field", ZString), Required("operator", ZString),
              Required("value", ZString)>>)

logExpressionSchema ==
    ZObject(<<Optional("search", ZString), Optional("filters", ZArray(logFilterSchema)),
              Optional("severityIn", ZArray(ZString))>>)

logQuerySchema ==
    ZObject(<<Optional("expression", logExpressionSchema), Required("start", ZDatetime),
              Required("end", ZDatetime), Optional("scope", queryScopeSchema),
              Optional("limit", ZPosInt), Optional("metadata", ZRecord(ZAny)),
              Optional("providers", ZArray(ZString))>>)

metricFilterSchema ==
    ZObject(<<Required("label", ZString), Required("operator", ZString),
              Required("value", ZString)>>)

metricExpressionSchema ==
    ZObject(<<Required("metricName", ZString), Optional("aggregation", ZString),
              Optional("filters", ZArray(metricFilterSchema)),
              Optional("groupBy", ZArray(ZString))>>)

metricQuerySchema ==
    ZObject(<<Optional("expression", metricExpressionSchema), Required("start", ZDatetime),
              Required("end", ZDatetime), Required("step", ZPosInt),
              Optional("scope", queryScopeSchema), Optional("metadata", ZRecord(ZAny))>>)

describeMetricsInputSchema == ZObject(<<Optional("scope", queryScopeSchema)>>)

alertQuerySchema ==
    ZObject(<<Optional("query", ZString), Optional("statuses", ZArray(ZString)),
              Optional("severities", ZArray(ZString)), Optional("scope", queryScopeSchema),
              Optional("limit", ZPosInt), Optional("metadata", ZRecord(ZAny))>>)

serviceQuerySchema ==
    ZObject(<<Optional("ids", ZArray(ZString)), Optional("name", ZString),
              Optional("tags", ZRecord(ZString)), Optional("limit", ZPosInt),
              Optional("scope", queryScopeSchema), Optional("metadata", ZRecord(ZAny))>>)

ticketQuerySchema ==
    ZObject(<<Optional("query", ZString), Optional("statuses", ZArray(ZString)),
              Optional("assignees", ZArray(ZString)), Optional("reporter", ZString),
              Optional("scope", queryScopeSchema), Optional("limit", ZPosInt),
              Optional("metadata", ZRecord(ZAny))>>)

capabilitySchema == ZEnum({"incident", "alert", "log", "metric", "ticket", "service"})

idSchema == ZObject(<<Required("id", ZString)>>)

(***************************************************************************)
(* Tools registered by buildServer, lines 881-1055                         *)
(***************************************************************************)
EncodeURIComponentChar(ch) ==
    CASE ch = "/" -> "%2F"
      [] ch = "?" -> "%3F"
      [] ch = "#" -> "%23"
      [] ch = " " -> "%20"
      [] OTHER -> ch

\* encodeURIComponent(s), as path tokens
encodeURIComponent(s) ==
    LET chars == Chars(s) IN [i \in 1..Len(chars) |-> EncodeURIComponentChar(chars[i])]

\* server.registerTool(name, {inputSchema}, handler): the handler issues
\* method on path; kind tells how it derives path and body from its input
Tool(name, schema, kind, method, path) ==
    [name |-> name, inputSchema |-> schema, kind |-> kind, method |-> method, path |-> path]

\* the tools of lines 888-1052, in the order of their registration
ReadTools ==
    << Tool("query-incidents", incidentQuerySchema, "query", "POST",
            <<"/", "incidents", "/", "query">>),
       Tool("get-incident", idSchema, "get", "GET", <<"/", "incidents", "/">>),
       Tool("get-incident-timeline", idSchema, "timeline", "GET", <<"/", "incidents", "/">>),
       Tool("query-alerts", alertQuerySchema, "query", "POST", <<"/", "alerts", "/", "query">>),
       Tool("query-logs", logQuerySchema, "query", "POST", <<"/", "logs", "/", "query">>),
       Tool("query-metrics", metricQuerySchema, "query", "POST",
            <<"/", "metrics", "/", "query">>),
       Tool("describe-metrics", describeMetricsInputSchema, "describe", "POST",
            <<"/", "metrics", "/", "describe">>),
       Tool("query-tickets", ticketQuerySchema, "query", "POST",
            <<"/", "tickets", "/", "query">>),
       Tool("get-ticket", idSchema, "get", "GET", <<"/", "tickets", "/">>),
       Tool("query-services", serviceQuerySchema, "query", "POST",
            <<"/", "services", "/", "query">>),
       Tool("list-providers", ZObject(<<Required("capability", capabilitySchema)>>),
            "providers", "GET", <<"/", "providers", "/">>) >>

\* createIncidentSchema of the earlier revision
createIncidentSchema ==
    ZObject(<<Required("title", ZString), Required("status", ZString),
              Required("severity", ZString), Optional("service", ZString),
              Optional("fields", ZRecord(ZAny)), Optional("metadata", ZRecord(ZAny))>>)

\* create-incident of the earlier revision still registered
RegisteredTools_WithCreateIncident ==
    <<Tool("create-incident", createIncidentSchema, "query", "POST", <<"/", "incidents">>)>>
    \o ReadTools

\* the tools buildServer registers
RegisteredTools == ReadTools

ToolNames == {RegisteredTools[i].name : i \in 1..Len(RegisteredTools)}
ToolNamed(name) ==
    RegisteredTools[CHOOSE i \in 1..Len(RegisteredTools) : RegisteredTools[i].name = name]

\* every handler passing its parsed input as the body
HandlerArgs_AlwaysBody(t, payload) ==
    [pathname |-> t.path, method |-> t.method, body |-> payload]

\* describe-metrics passing its parsed input, scope nested, as the body
HandlerArgs_NestedScope(t, payload) ==
    [pathname |-> t.path
                  \o (CASE t.kind = "get" -> encodeURIComponent(Get(payload, "id").v)
                        [] t.kind = "timeline" ->
                              encodeURIComponent(Get(payload, "id").v) \o <<"/", "timeline">>
                        [] t.kind = "providers" ->
                              encodeURIComponent(Get(payload, "capability").v)
                        [] OTHER -> <<>>),
     method |-> t.method,
     body |-> IF t.kind \in {"query", "describe"} THEN payload ELSE Undefined]

\* the arguments the handler of tool t gives coreRequest for the parsed input
HandlerArgs(t, payload) ==
    CASE t.kind = "query" ->
            [pathname |-> t.path, method |-> t.method, body |-> payload]
      [] t.kind = "describe" ->
            [pathname |-> t.path, method |-> t.method,
             body |-> IF Get(payload, "scope").k \in {"undefined", "null"}
                      THEN Obj(<<>>) ELSE Get(payload, "scope")]
      [] t.kind = "get" ->
            [pathname |-> t.path \o encodeURIComponent(Get(payload, "id").v),
             method |-> t.method, body |-> Undefined]
      [] t.kind = "timeline" ->
            [pathname |-> t.path \o encodeURIComponent(Get(payload, "id").v)
                          \o <<"/", "timeline">>,
             method |-> t.method, body |-> Undefined]
      [] t.kind = "providers" ->
            [pathname |-> t.path \o encodeURIComponent(Get(payload, "capability").v),
             method |-> t.method, body |-> Undefined]

Start == "2024-01-01T00:00:00Z"
End == "2024-01-02T00:00:00Z"

\* the tool calls received from the agent: tool name and arguments
ToolCalls ==
    { <<"query-incidents", Obj(<< <<"query", Str("error")>>, <<"limit", Num(5)>> >>)>>,
      <<"query-incidents", Obj(<< <<"limit", Num(0)>> >>)>>,
      <<"query-alerts", Obj(<< <<"limit", Num(-1)>> >>)>>,
      <<"query-tickets", Obj(<< <<"limit", Frac(3, 2)>> >>)>>,
      <<"query-services", Obj(<< <<"name", Str("checkout")>>, <<"owner", Str("x")>> >>)>>,
      <<"query-logs", Obj(<< <<"start", Str(Start)>>, <<"end", Str(End)>> >>)>>,
      <<"query-logs", Obj(<< <<"start", Str(Start)>> >>)>>,
      <<"query-logs", Obj(<< <<"start", Str(Start)>>, <<"end", Str(End)>>,
                             <<"limit", Str("5")>> >>)>>,
      <<"query-metrics", Obj(<< <<"start", Str(Start)>>, <<"end", Str(End)>>,
                                <<"step", Num(60)>> >>)>>,
      <<"query-metrics", Obj(<< <<"end", Str(End)>>, <<"step", Num(60)>> >>)>>,
      <<"describe-metrics", Obj(<<>>)>>,
      <<"describe-metrics", Obj(<< <<"scope", Obj(<< <<"service", Str("checkout")>> >>)>> >>)>>,
      <<"get-incident", Obj(<< <<"id", Str("inc-1")>> >>)>>,
      <<"get-incident", Obj(<< <<"id", Str("a/b")>> >>)>>,
      <<"get-incident", Obj(<< <<"id", Str("..")>> >>)>>,
      <<"get-incident", Obj(<<>>)>>,
      <<"get-incident-timeline", Obj(<< <<"id", Str("inc-1")>> >>)>>,
      <<"get-ticket", Obj(<< <<"id", Str("a?b")>> >>)>>,
      <<"list-providers", Obj(<< <<"capability", Str("incident")>> >>)>>,
      <<"list-providers", Obj(<< <<"capability", Str("messaging")>> >>)>>,
      <<"query-teams", Obj(<< <<"name", Str("velocity")>> >>)>>,
      <<"get-deployment", Obj(<< <<"id", Str("deploy-123")>> >>)>>,
      <<"create-incident", Obj(<< <<"title", Str("Checkout down")>>,
                                  <<"status", Str("open")>>,
                                  <<"severity", Str("sev1")>> >>)>> }

\* a tool call that ends before coreRequest is entered
EndBeforeRequest(c, caller, err) ==
    /\ tool' = [tool EXCEPT ![c] = [caller EXCEPT !.state = "threw", !.error = err]]
    /\ pc' = [pc EXCEPT ![c] = "idle"]
    /\ args' = [args EXCEPT ![c] = NoArgs]
    /\ timer' = [timer EXCEPT ![c] = NoTimer]
    /\ elapsed' = [elapsed EXCEPT ![c] = 0]
    /\ failureLogged' = [failureLogged EXCEPT ![c] = FALSE]
    /\ fetched' = [fetched EXCEPT ![c] = <<>>]
    /\ res' = [res EXCEPT ![c] = NoResponse]
    /\ outcome' = [outcome EXCEPT ![c] = Pending]
    /\ console' = [console EXCEPT ![c] = <<>>]
    /\ events' = [events EXCEPT ![c] = <<>>]
    /\ UNCHANGED <<boot, env, slots>>

\* a tool call: the server looks the name up among the registered tools and
\* refuses a name it does not find; the input is parsed against the tool's
\* input schema, then the handler calls coreRequest; a ZodError ends the call
\* before coreRequest
CallTool(c, name, input) ==
    /\ Free(c)
    /\ IF name \notin ToolNames
       THEN EndBeforeRequest(c, Caller(name, input), Error("McpError", "Tool not found"))
       ELSE LET t == ToolNamed(name)
                parsed == ZodParse(t.inputSchema, input)
            IN IF parsed.ok
               THEN BeginRequest(c, Caller(name, input), HandlerArgs(t, parsed.val))
               ELSE EndBeforeRequest(c, Caller(name, input),
                                     Error("ZodError", "invalid input"))

(***************************************************************************)
(* The network                                                             *)
(***************************************************************************)
Responses ==
    { [status |-> 200, statusText |-> "OK", read |-> FALSE, text |-> <<>>],
      [status |-> 404, statusText |-> "Not Found", read |-> FALSE, text |-> <<>>] }

ResponseOk(r) == r.status >= 200 /\ r.status <= 299

\* the team list of the tests, shortened: nested objects, an array, a number
TeamData ==
    Arr(<< Obj(<< <<"id", Str("team-velocity")>>,
                  <<"tags", Obj(<< <<"type", Str("team")>>, <<"provider", Str("mock")>> >>)>>,
                  <<"metadata", Obj(<< <<"members_count", Num(4)>>,
                                       <<"services", Arr(<<Str("svc-checkout"), Str("svc-web")>>)>>
                                    >>)>> >>) >>)

\* the JSON values Core answers with
Payloads ==
    { Obj(<< <<"message", Str("Team not found")>> >>),
      Obj(<< <<"status", Str("ok")>> >>),
      Arr(<<>>),
      Str("gone"),
      TeamData }

\* bodies that are not JSON: plain text, and a JSON text cut short
Malformed ==
    { <<Raw("upstream unavailable")>>,
      <<P("{"), Str("message"), P(":")>> }

\* the body texts Core answers with: nothing, a JSON text, or neither
Texts == {<<>>} \cup {JSONStringify(v, 0).v : v \in Payloads} \cup Malformed

LastFetch(c) == fetched[c][Len(fetched[c])]

\* the URL and the headers built again, from the configuration of the moment,
\* when the response arrives
FetchResolve_RereadsConfig(c, r) ==
    /\ pc[c] = "fetching"
    /\ LastFetch(c).sent
    /\ res' = [res EXCEPT ![c] = r]
    /\ pc' = [pc EXCEPT ![c] = "reading"]
    /\ events' = [events EXCEPT ![c] = Append(@, Ev("response"))]
    /\ fetched' = [fetched EXCEPT ![c] =
                       <<FetchInit(args[c].pathname, args[c].method, args[c].body)>>]
    /\ UNCHANGED <<boot, env, slots, args, timer, elapsed, failureLogged,
                   outcome, console, tool>>

\* await fetch(...) resolves: the status line and headers have arrived
FetchResolve(c, r) ==
    /\ pc[c] = "fetching"
    /\ LastFetch(c).sent
    /\ res' = [res EXCEPT ![c] = r]
    /\ pc' = [pc EXCEPT ![c] = "reading"]
    /\ events' = [events EXCEPT ![c] = Append(@, Ev("response"))]
    /\ UNCHANGED <<boot, env, slots, args, timer, elapsed, failureLogged, fetched,
                   outcome, console, tool>>

\* a failed fetch issued again
FetchReject_Retries(c) ==
    /\ pc[c] = "fetching"
    /\ Len(fetched[c]) < 2
    /\ fetched' = [fetched EXCEPT ![c] = Append(@, LastFetch(c))]
    /\ events' = [events EXCEPT ![c] = Append(@, Ev("fetch"))]
    /\ UNCHANGED <<boot, env, slots, pc, args, timer, elapsed, failureLogged, res,
                   outcome, console, tool>>

\* await fetch(...) rejects: fetch refused the request, or the network failed
FetchReject(c) ==
    /\ pc[c] = "fetching"
    /\ Throw(c, <<>>, console[c], failureLogged[c],
             IF LastFetch(c).sent
             THEN Error("TypeError", "fetch failed")
             ELSE Error("TypeError", "Request with GET/HEAD method cannot have body"))
    /\ UNCHANGED <<boot, env, slots, args, elapsed, failureLogged, fetched, res>>

\* the message taken from the status text alone
ErrorMessageOf_StatusText(data, statusText) == statusText

\* line 829: the message of a non-2xx failure
ErrorMessageOf(data, statusText) ==
    IF data.k \in {"obj", "arr"} /\ HasKey(data, "message")
    THEN JSString(Get(data, "message"))
    ELSE statusText

\* the message without the product name
CoreErrorMessage_NoPrefix(status, message) ==
    "Core " \o ToString(status) \o ": " \o message

\* line 838: the message of the Error thrown for a non-2xx response
CoreErrorMessage(status, message) ==
    "OpsOrch Core " \o ToString(status) \o ": " \o message

\* the empty text handed to JSON.parse like any other
ParseBody_AlwaysParses(text) == JSONParse(text)

\* the SyntaxError of JSON.parse (V8 of Node 20): at an unexpected token the
\* message quotes the source text, at the end of the input it does not
SyntaxErrorOf(text) ==
    IF Len(text) > 0 /\ text[1].k = "raw"
    THEN Error("SyntaxError",
               "Unexpected token, \"" \o text[1].v \o "\" is not valid JSON")
    ELSE Error("SyntaxError", "Unexpected end of JSON input")

\* line 825: text ? JSON.parse(text) : undefined
ParseBody(text) ==
    IF Len(text) > 0 THEN JSONParse(text) ELSE [ok |-> TRUE, val |-> Undefined]

\* lines 824-852: await res.text() resolves with the whole body
TextResolve(c, text) ==
    /\ pc[c] = "reading"
    /\ LET parsed == ParseBody(text)
           data == parsed.val
           durationMs == elapsed[c]
           a == args[c]
       IN IF ~parsed.ok
          THEN /\ Throw(c, <<Ev("text")>>, console[c], failureLogged[c],
                        SyntaxErrorOf(text))
               /\ UNCHANGED failureLogged
          ELSE IF ~ResponseOk(res[c])
          THEN LET message == ErrorMessageOf(data, res[c].statusText)
                   lines == Log(console[c], "error", "OpsOrch Core call failed",
                                [method |-> a.method, pathname |-> a.pathname,
                                 status |-> res[c].status, durationMs |-> durationMs,
                                 error |-> message])
               IN /\ failureLogged' = [failureLogged EXCEPT ![c] = TRUE]
                  /\ Throw(c, <<Ev("text"), Ev("parsed")>>, lines, TRUE,
                           Error("Error", CoreErrorMessage(res[c].status, message)))
          ELSE LET lines1 == Log(console[c], "info", "OpsOrch Core call succeeded",
                                 [method |-> a.method, pathname |-> a.pathname,
                                  status |-> res[c].status, durationMs |-> durationMs])
                   lines2 == Log(lines1, "debug", "OpsOrch Core response payload",
                                 [method |-> a.method, pathname |-> a.pathname,
                                  response |-> data])
               IN /\ console' = [console EXCEPT ![c] = lines2]
                  /\ events' = [events EXCEPT ![c] = @ \o SuccessEvents(console[c], lines2)]
                  /\ outcome' = [outcome EXCEPT ![c] = Resolved(data)]
                  /\ pc' = [pc EXCEPT ![c] = "resolved"]
                  /\ timer' = [timer EXCEPT ![c] = ClearTimeout(@)]
                  /\ tool' = [tool EXCEPT ![c] = AfterAwait(@, Resolved(data))]
                  /\ UNCHANGED failureLogged
    /\ res' = [res EXCEPT ![c].read = TRUE, ![c].text = text]
    /\ UNCHANGED <<boot, env, slots, args, elapsed, fetched>>

\* await res.text() rejects: the connection broke while the body was read
TextReject(c) ==
    /\ pc[c] = "reading"
    /\ Throw(c, <<>>, console[c], failureLogged[c], Error("TypeError", "terminated"))
    /\ UNCHANGED <<boot, env, slots, args, elapsed, failureLogged, fetched, res>>

Running(c) == pc[c] \in {"fetching", "reading"}

\* the timer firing without aborting the request
TimerFire_NoAbort(c) ==
    /\ timer[c].state = "armed"
    /\ Running(c)
    /\ timer' = [timer EXCEPT ![c].state = "fired"]
    /\ UNCHANGED <<boot, events, env, slots, pc, args, elapsed, failureLogged, fetched, res,
                   outcome, console, tool>>

Remaining(c) == IF elapsed[c] < timer[c].delay THEN timer[c].delay - elapsed[c] ELSE 0

\* one controller shared by the calls: the timer of a call aborts every
\* request in flight
TimerFire_SharedController(c) ==
    LET err == Error("AbortError", "This operation was aborted")
        hit(d) == Running(d) /\ LastFetch(d).sent
    IN /\ timer[c].state = "armed"
       /\ Running(c)
       /\ LastFetch(c).sent
       /\ \A d \in Calls : (Running(d) /\ timer[d].state = "armed")
                                => Remaining(d) >= Remaining(c)
       /\ elapsed' = [d \in Calls |-> IF Running(d) THEN elapsed[d] + Remaining(c)
                                       ELSE elapsed[d]]
       /\ console' = [d \in Calls |->
                         IF hit(d)
                         THEN CatchLines(console[d], failureLogged[d], args[d], elapsed'[d], err)
                         ELSE console[d]]
       /\ events' = [d \in Calls |->
                        IF hit(d)
                        THEN events[d] \o FailureEvents(<<Ev("abort")>>, console[d], console'[d])
                        ELSE events[d]]
       /\ outcome' = [d \in Calls |-> IF hit(d) THEN Rejected(err) ELSE outcome[d]]
       /\ pc' = [d \in Calls |-> IF hit(d) THEN "rejected" ELSE pc[d]]
       /\ timer' = [d \in Calls |-> IF d = c THEN [timer[d] EXCEPT !.state = "fired"]
                                     ELSE IF hit(d) THEN ClearTimeout(timer[d]) ELSE timer[d]]
       /\ tool' = [d \in Calls |-> IF hit(d) THEN AfterAwait(tool[d], Rejected(err))
                                    ELSE tool[d]]
       /\ UNCHANGED <<boot, env, slots, args, failureLogged, fetched, res>>

\* line 803: the timer fires, controller.abort() rejects the pending await;
\* timers fire in the order of their deadlines
TimerFire(c) ==
    /\ timer[c].state = "armed"
    /\ Running(c)
    /\ LastFetch(c).sent
    /\ \A d \in Calls : (Running(d) /\ timer[d].state = "armed") => Remaining(d) >= Remaining(c)
    /\ elapsed' = [d \in Calls |-> IF Running(d) THEN elapsed[d] + Remaining(c) ELSE elapsed[d]]
    /\ console' = [console EXCEPT ![c] =
                      CatchLines(console[c], failureLogged[c], args[c], elapsed'[c],
                                 Error("AbortError", "This operation was aborted"))]
    /\ events' = [events EXCEPT ![c] =
                     @ \o FailureEvents(<<Ev("abort")>>, console[c], console'[c])]
    /\ outcome' = [outcome EXCEPT ![c] =
                      Rejected(Error("AbortError", "This operation was aborted"))]
    /\ pc' = [pc EXCEPT ![c] = "rejected"]
    /\ timer' = [timer EXCEPT ![c].state = "fired"]
    /\ tool' = [tool EXCEPT ![c] =
                   AfterAwait(@, Rejected(Error("AbortError", "This operation was aborted")))]
    /\ UNCHANGED <<boot, env, slots, args, failureLogged, fetched, res>>

\* a millisecond passes while calls are in flight
Tick ==
    /\ \E c \in Calls : Running(c)
    /\ \A c \in Calls : Running(c) => elapsed[c] < MaxElapsed
    /\ elapsed' = [c \in Calls |-> IF Running(c) THEN elapsed[c] + 1 ELSE elapsed[c]]
    /\ UNCHANGED <<boot, events, env, slots, pc, args, timer, failureLogged, fetched, res,
                   outcome, console, tool>>

(***************************************************************************)
(* main, lines 1057-1109: the transports                                   *)
(***************************************************************************)
\* the POST /mcp requests followed
MaxRequests == 3
Requests == 1..MaxRequests

RECURSIVE AllDigits(_, _)
AllDigits(chars, i) == i > Len(chars) \/ (IsDigit(chars[i]) /\ AllDigits(chars, i + 1))

\* Number(s) of a string that is not empty: an optional sign, digits and an
\* optional fraction, the whole string or NaN; n is the integer part and frac
\* the digits of the fraction
ToNumber(s) ==
    LET all == Chars(s)
        neg == Len(all) > 0 /\ all[1] = "-"
        chars == IF neg THEN Tail(all) ELSE all
        dot == IF \E i \in 1..Len(chars) : chars[i] = "."
               THEN CHOOSE i \in 1..Len(chars) :
                        chars[i] = "." /\ \A j \in 1..(i - 1) : chars[j] # "."
               ELSE 0
        whole == IF dot = 0 THEN chars ELSE SubSeq(chars, 1, dot - 1)
        fraction == IF dot = 0 THEN <<>> ELSE SubSeq(chars, dot + 1, Len(chars))
    IN IF Len(chars) = 0 \/ Len(whole) + Len(fraction) = 0
          \/ ~AllDigits(whole, 1) \/ ~AllDigits(fraction, 1)
       THEN [nan |-> TRUE, neg |-> FALSE, n |-> 0, frac |-> 0]
       ELSE [nan |-> FALSE, neg |-> neg, n |-> ParseDigits(whole, 1, 0),
             frac |-> ParseDigits(fraction, 1, 0)]

\* a port that is 0 when MCP_HTTP_PORT is unset
httpPort_NoDefault(v) ==
    IF v.set /\ v.val # "" THEN ToNumber(v.val)
    ELSE [nan |-> FALSE, neg |-> FALSE, n |-> 0, frac |-> 0]

\* line 1065: process.env.MCP_HTTP_PORT ? Number(process.env.MCP_HTTP_PORT) : 7070
httpPort(v) ==
    IF v.set /\ v.val # "" THEN ToNumber(v.val)
    ELSE [nan |-> FALSE, neg |-> FALSE, n |-> 7070, frac |-> 0]

\* line 1066: !Number.isNaN(httpPort) && httpPort > 0
PortEnabled(p) == ~p.nan /\ ~p.neg /\ (p.n > 0 \/ p.frac > 0)

\* the ports listen() accepts: the integers from 0 to 65535; for any other
\* number it throws ERR_SOCKET_BAD_PORT
LegalPort(p) == ~p.nan /\ ~p.neg /\ p.frac = 0 /\ p.n <= 65535

\* main is not run: MCP_SKIP_RUN=1 or NODE_ENV=test (line 1101)
NoMain ==
    [pc |-> "skipped", port |-> Unset, log |-> <<>>, listen |-> 0, exit |-> 0,
     servers |-> <<>>, transports |-> <<>>,
     requests |-> [r \in Requests |-> [state |-> "none", server |-> 0, transport |-> 0]]]

\* lines 1059-1062: the stdio transport and its server, connected; a server
\* instance records the transport it is connected to
MainStdio ==
    /\ boot.pc = "start"
    /\ boot' = [boot EXCEPT !.pc = "stdio-ready",
                            !.transports = <<[kind |-> "stdio", closed |-> FALSE]>>,
                            !.servers = <<[transport |-> 1]>>,
                            !.log = Append(@, "OpsOrch MCP stdio transport ready")]
    /\ UNCHANGED <<env, slots, pc, args, timer, elapsed, failureLogged, fetched, res,
                   outcome, console, tool, events>>

\* lines 1065-1098: the listener is started when the port is enabled; a port
\* listen() refuses makes main reject, and the process logs and exits
\* (lines 1104-1107)
MainHttp ==
    /\ boot.pc = "stdio-ready"
    /\ LET port == httpPort(boot.port) IN
       boot' = IF ~PortEnabled(port) THEN [boot EXCEPT !.pc = "serving"]
               ELSE IF LegalPort(port)
               THEN [boot EXCEPT !.pc = "serving", !.listen = port.n,
                                 !.log = Append(@, "OpsOrch MCP HTTP listening")]
               ELSE [boot EXCEPT !.pc = "exited", !.exit = 1,
                                 !.log = Append(@, "Failed to start opsorch-mcp server")]
    /\ UNCHANGED <<env, slots, pc, args, timer, elapsed, failureLogged, fetched, res,
                   outcome, console, tool, events>>

\* one server instance kept for all the requests
PostMcp_SharedServer(r) ==
    /\ boot.pc = "serving"
    /\ boot.listen > 0
    /\ boot.requests[r].state = "none"
    /\ LET t == Len(boot.transports) + 1
           shared == Len(boot.servers) > 1
           s == IF shared THEN 2 ELSE Len(boot.servers) + 1
       IN boot' = [boot EXCEPT
                     !.transports = Append(@, [kind |-> "http", closed |-> FALSE]),
                     !.servers = IF shared THEN [@ EXCEPT ![s].transport = t]
                                 ELSE Append(@, [transport |-> t]),
                     !.requests[r] = [state |-> "connected", server |-> s, transport |-> t]]
    /\ UNCHANGED <<env, slots, pc, args, timer, elapsed, failureLogged, fetched, res,
                   outcome, console, tool, events>>

\* lines 1072-1086: a POST /mcp arrives; buildServer(), a new transport, and
\* the server connected to it
PostMcp(r) ==
    /\ boot.pc = "serving"
    /\ boot.listen > 0
    /\ boot.requests[r].state = "none"
    /\ LET t == Len(boot.transports) + 1
           s == Len(boot.servers) + 1
       IN boot' = [boot EXCEPT
                     !.transports = Append(@, [kind |-> "http", closed |-> FALSE]),
                     !.servers = Append(@, [transport |-> t]),
                     !.requests[r] = [state |-> "connected", server |-> s, transport |-> t]]
    /\ UNCHANGED <<env, slots, pc, args, timer, elapsed, failureLogged, fetched, res,
                   outcome, console, tool, events>>

\* line 1087: transport.handleRequest answers the request
HandleRequest(r) ==
    /\ boot.requests[r].state = "connected"
    /\ boot' = [boot EXCEPT !.requests[r].state = "answered"]
    /\ UNCHANGED <<env, slots, pc, args, timer, elapsed, failureLogged, fetched, res,
                   outcome, console, tool, events>>

\* lines 1082-1084: the response closes, and the transport of the request
\* with it
CloseResponse(r) ==
    /\ boot.requests[r].state \in {"connected", "answered"}
    /\ boot' = [boot EXCEPT !.requests[r].state = "closed",
                            !.transports[boot.requests[r].transport].closed = TRUE]
    /\ UNCHANGED <<env, slots, pc, args, timer, elapsed, failureLogged, fetched, res,
                   outcome, console, tool, events>>

EnvUrls == {Unset, Set(UrlPrefixed), Set(UrlNoScheme)}
EnvTokens == {Unset, Set(""), Set("token123")}
EnvTimeouts == {Unset, Set("2"), Set("soon")}
EnvLevels == {Unset, Set("DEBUG"), Set("warn")}

NoCaller == [name |-> "", input |-> Undefined, state |-> "none", calls |-> 0,
             result |-> NoEnvelope, error |-> NoError]

Envs == [url : EnvUrls, token : EnvTokens, timeout : EnvTimeouts, level : EnvLevels]

\* the process after start, no call made yet
InitWith(envs, contexts) ==
    /\ env \in envs
    /\ slots = contexts
    /\ pc = [c \in Calls |-> "idle"]
    /\ args = [c \in Calls |-> NoArgs]
    /\ timer = [c \in Calls |-> NoTimer]
    /\ elapsed = [c \in Calls |-> 0]
    /\ failureLogged = [c \in Calls |-> FALSE]
    /\ fetched = [c \in Calls |-> <<>>]
    /\ res = [c \in Calls |-> NoResponse]
    /\ outcome = [c \in Calls |-> Pending]
    /\ console = [c \in Calls |-> <<>>]
    /\ tool = [c \in Calls |-> NoCaller]
    /\ boot = NoMain
    /\ events = [c \in Calls |-> <<>>]

\* calls follow one another in one context, under any configuration
Init == InitWith(Envs, {1})

Next ==
    \/ \E c \in Calls, a \in DirectArgs : CallCoreRequest(c, a)
    \/ \E c \in Calls, tc \in ToolCalls : CallTool(c, tc[1], tc[2])
    \/ \E c \in Calls, r \in Responses : FetchResolve(c, r)
    \/ \E c \in Calls : FetchReject(c)
    \/ \E c \in Calls, text \in Texts : TextResolve(c, text)
    \/ \E c \in Calls : TextReject(c)
    \/ \E c \in Calls : TimerFire(c)
    \/ Tick

Spec == Init /\ [][Next]_vars

\* the timer of a pending call fires in the end, and the rejection of a
\* request that fetch refused is delivered
RefusedFetchRejects(c) == pc[c] = "fetching" /\ ~LastFetch(c).sent /\ FetchReject(c)

FairSpec ==
    /\ Spec
    /\ \A c \in Calls : WF_vars(TimerFire(c)) /\ WF_vars(RefusedFetchRejects(c))

\* calls overlap in the two contexts, under the configuration with every
\* variable unset
InitConcurrent ==
    InitWith({[url |-> Unset, token |-> Unset, timeout |-> Unset, level |-> Unset]}, Calls)

\* the calls and the bodies followed while two calls overlap
ConcurrentArgs ==
    { [pathname |-> <<"/", "teams", "/", "x">>, method |-> "GET", body |-> Undefined],
      [pathname |-> <<"/", "teams", "/", "query">>, method |-> "POST", body |-> TeamQuery] }

ConcurrentToolCalls ==
    { <<"get-incident", Obj(<< <<"id", Str("inc-1")>> >>)>>,
      <<"query-incidents", Obj(<< <<"query", Str("error")>>, <<"limit", Num(5)>> >>)>> }

ConcurrentTexts ==
    { <<>>,
      JSONStringify(Obj(<< <<"message", Str("Team not found")>> >>), 0).v,
      JSONStringify(Arr(<<>>), 0).v,
      <<Raw("upstream unavailable")>> }

NextConcurrent ==
    \/ \E c \in Calls, a \in ConcurrentArgs : CallCoreRequest(c, a)
    \/ \E c \in Calls, tc \in ConcurrentToolCalls : CallTool(c, tc[1], tc[2])
    \/ \E c \in Calls, r \in Responses : FetchResolve(c, r)
    \/ \E c \in Calls : FetchReject(c)
    \/ \E c \in Calls, text \in ConcurrentTexts : TextResolve(c, text)
    \/ \E c \in Calls : TextReject(c)
    \/ \E c \in Calls : TimerFire(c)
    \/ Tick

SpecConcurrent == InitConcurrent /\ [][NextConcurrent]_vars

\* process.env is assigned while the process runs, as the tests do between
\* calls; OPSORCH_LOG_LEVEL is read once, when logger.ts is loaded
SetEnv(e) ==
    /\ e # env
    /\ e.level = env.level
    /\ env' = e
    /\ UNCHANGED <<boot, events, slots, pc, args, timer, elapsed, failureLogged, fetched,
                   res, outcome, console, tool>>

InitReconfig ==
    InitWith({[url |-> Unset, token |-> Unset, timeout |-> Unset, level |-> Unset]}, {1})

NextReconfig ==
    \/ \E e \in [url : {Unset, Set(UrlPrefixed)}, token : {Unset, Set("token123")},
                timeout : {Unset, Set("2")}, level : {Unset}] : SetEnv(e)
    \/ \E c \in Calls, a \in ConcurrentArgs : CallCoreRequest(c, a)
    \/ \E c \in Calls, tc \in ConcurrentToolCalls : CallTool(c, tc[1], tc[2])
    \/ \E c \in Calls, r \in Responses : FetchResolve(c, r)
    \/ \E c \in Calls : FetchReject(c)
    \/ \E c \in Calls, text \in ConcurrentTexts : TextResolve(c, text)
    \/ \E c \in Calls : TextReject(c)
    \/ \E c \in Calls : TimerFire(c)
    \/ Tick

\* calls follow one another while the configuration changes under them
SpecReconfig == InitReconfig /\ [][NextReconfig]_vars

\* the process started with main, under the values given to MCP_HTTP_PORT
InitMain ==
    /\ env = [url |-> Unset, token |-> Unset, timeout |-> Unset, level |-> Unset]
    /\ slots = {1}
    /\ pc = [c \in Calls |-> "idle"]
    /\ args = [c \in Calls |-> NoArgs]
    /\ timer = [c \in Calls |-> NoTimer]
    /\ elapsed = [c \in Calls |-> 0]
    /\ failureLogged = [c \in Calls |-> FALSE]
    /\ fetched = [c \in Calls |-> <<>>]
    /\ res = [c \in Calls |-> NoResponse]
    /\ outcome = [c \in Calls |-> Pending]
    /\ console = [c \in Calls |-> <<>>]
    /\ tool = [c \in Calls |-> NoCaller]
    /\ events = [c \in Calls |-> <<>>]
    /\ \E v \in {Unset, Set(""), Set("0"), Set("8081"), Set("70000"), Set("-1"),
                  Set("80x"), Set("1.5")} :
          boot = [NoMain EXCEPT !.pc = "start", !.port = v]

NextMain ==
    \/ MainStdio
    \/ MainHttp
    \/ \E r \in Requests : PostMcp(r)
    \/ \E r \in Requests : HandleRequest(r)
    \/ \E r \in Requests : CloseResponse(r)

SpecMain == InitMain /\ [][NextMain]_vars

\* calls under the values given to OPSORCH_LOG_LEVEL, the rest of the
\* configuration left unset
InitLevels ==
    InitWith([url : {Unset}, token : {Unset}, timeout : {Unset},
              level : {Unset, Set(""), Set("DEBUG"), Set("info"), Set("Warn"),
                       Set("error"), Set("verbose"), Set("constructor")}], {1})

SpecLevels == InitLevels /\ [][Next]_vars

(***************************************************************************)
(* Properties                                                              *)
(***************************************************************************)
CountLevel(lines, level) == Len(SelectSeq(lines, LAMBDA l : l.level = level))
CountMessage(lines, message) == Len(SelectSeq(lines, LAMBDA l : l.message = message))
Started(c) == pc[c] # "idle"
Failed(c) == outcome[c].kind = "error"
Succeeded(c) == outcome[c].kind = "value"
NonOk(c) == res[c].status # 0 /\ ~ResponseOk(res[c])

\* C1: a coreRequest call that has failed, whatever the origin of the failure,
\* has written exactly one error-level log entry.
C1_OneErrorEntryPerFailure ==
    \A c \in Calls : Failed(c) => CountLevel(console[c], "error") = 1

\* a non-2xx response was classified, logged and thrown, and the catch block ran
C1_Witness ==
    \E c \in Calls : /\ Failed(c) /\ failureLogged[c] /\ NonOk(c)
                     /\ CountLevel(console[c], "error") = 1

ExpectedMessage(text, statusText) ==
    LET body == IF Len(text) = 0 THEN Undefined ELSE JSONParse(text).val IN
    IF body.k = "obj" /\ "message" \in Keys(body)
    THEN JSString(Get(body, "message"))
    ELSE statusText

\* C3 (as stated): a non-2xx response, whatever its body, makes the call fail
\* with the Core error of its status code and of the expected message.
C3_AsStated ==
    \A c \in Calls : (res[c].read /\ NonOk(c)) =>
        /\ Failed(c)
        /\ outcome[c].error =
              Error("Error", CoreErrorMessage(res[c].status,
                                              ExpectedMessage(res[c].text, res[c].statusText)))

\* C3 (amended): a non-2xx response whose body is empty or valid JSON makes the
\* call fail with the Core error of its status code and of the expected
\* message; with a non-empty body that is not valid JSON the call fails with
\* the parse error (SyntaxError) instead.
C3_CoreErrorUnlessUnparsable ==
    \A c \in Calls : (res[c].read /\ NonOk(c)) =>
        /\ Failed(c)
        /\ IF Len(res[c].text) = 0 \/ JSONParse(res[c].text).ok
           THEN outcome[c].error =
                   Error("Error", CoreErrorMessage(res[c].status,
                                     ExpectedMessage(res[c].text, res[c].statusText)))
           ELSE outcome[c].error.name = "SyntaxError"

\* a 404 whose body is JSON but not an object: the status text is the message
C3_Witness ==
    \E c \in Calls : /\ res[c].read /\ res[c].status = 404
                     /\ res[c].text = <<Str("gone")>>
                     /\ outcome[c].error.message = CoreErrorMessage(404, "Not Found")

\* C4 (as stated): the message of a non-2xx failure is exactly "Core ", the
\* status code, ": " and the extracted message.
C4_AsStated ==
    \A c \in Calls : (res[c].read /\ NonOk(c) /\ outcome[c].error.name = "Error") =>
        outcome[c].error.message =
            "Core " \o ToString(res[c].status) \o ": "
                    \o ExpectedMessage(res[c].text, res[c].statusText)

\* C4 (amended): the message of a non-2xx failure is exactly "OpsOrch Core ",
\* the status code, ": " and the extracted message; status 404 with body
\* {"message":"Team not found"} gives "OpsOrch Core 404: Team not found".
C4_MessageFormat ==
    \A c \in Calls : (res[c].read /\ NonOk(c) /\ outcome[c].error.name = "Error") =>
        /\ outcome[c].error.message =
              "OpsOrch Core " \o ToString(res[c].status) \o ": "
                              \o ExpectedMessage(res[c].text, res[c].statusText)
        /\ (/\ res[c].status = 404
            /\ res[c].text = <<P("{"), Str("message"), P(":"), Str("Team not found"), P("}")>>)
              => outcome[c].error.message = "OpsOrch Core 404: Team not found"

\* coreRequest('/teams/x', 'GET') answered 404 {"message":"Team not found"}
C4_Witness ==
    \E c \in Calls : /\ args[c].pathname = <<"/", "teams", "/", "x">>
                     /\ args[c].method = "GET"
                     /\ res[c].status = 404
                     /\ outcome[c].error.message = "OpsOrch Core 404: Team not found"

AbortError == Error("AbortError", "This operation was aborted")

\* C5: the timer of a call is set to the configured timeout (15000 ms when
\* OPSORCH_CORE_TIMEOUT_MS is unset); when it fires, not before the timeout has
\* passed, the call is rejected to its caller with the abort error, has logged
\* exactly one error entry and has issued one outbound request only; and no
\* call stays pending forever.
C5_TimeoutAborts ==
    /\ [](\A c \in Calls :
            /\ (timer[c].state = "armed" /\ ~env.timeout.set) => timer[c].delay = 15000
            /\ timer[c].state = "fired" =>
                  /\ elapsed[c] >= timer[c].delay
                  /\ outcome[c] = Rejected(AbortError)
                  /\ tool[c].state = "threw" /\ tool[c].error = AbortError
                  /\ CountLevel(console[c], "error") = 1
                  /\ Len(fetched[c]) = 1)
    /\ \A c \in Calls : Running(c) ~> ~Running(c)

\* with the timeout unset, a call was aborted 15000 ms after it began
C5_Witness ==
    \E c \in Calls : /\ ~env.timeout.set
                     /\ timer[c].state = "fired"
                     /\ elapsed[c] = 15000
                     /\ outcome[c] = Rejected(AbortError)

\* C6 (as stated): every coreRequest call issues exactly one outbound fetch.
C6_AsStated ==
    \A c \in Calls : Started(c) => Len(fetched[c]) = 1

\* C6 (amended): every coreRequest call issues at most one outbound fetch, never
\* a second one: exactly one when OPSORCH_CORE_URL parses as a URL (on success,
\* non-2xx, parse failure, transport error and timeout alike), and none when it
\* does not, the call failing before fetch is reached.
C6_OneFetchUnlessUrlInvalid ==
    \A c \in Calls : Started(c) =>
        Len(fetched[c]) = (IF ParseURL(getCoreURL).ok THEN 1 ELSE 0)

\* a call whose fetch was rejected by the network ended with that one fetch
C6_Witness ==
    \E c \in Calls : /\ Failed(c)
                     /\ outcome[c].error.message = "fetch failed"
                     /\ Len(fetched[c]) = 1

\* the tools whose input schema has a limit, and those that need start and end
LimitTools == {"query-incidents", "query-alerts", "query-logs", "query-services",
               "query-tickets"}
RangeTools == {"query-logs", "query-metrics"}

\* a limit that is not a number, not an integer, or not above zero
BadLimit(input) ==
    /\ "limit" \in Keys(input)
    /\ LET l == Get(input, "limit") IN
       \/ l.k # "num"
       \/ l.v[1] * l.v[2] <= 0
       \/ (l.v[1] \div l.v[2]) * l.v[2] # l.v[1]

BadShape(t) ==
    \/ t.name \in LimitTools /\ BadLimit(t.input)
    \/ t.name \in RangeTools /\ ~({"start", "end"} \subseteq Keys(t.input))

\* C7: a tool call whose input has a bad limit, or lacks start or end where
\* they are required, fails with the validation error without coreRequest being
\* entered: no outbound call, no log entry.
C7_InvalidInputFailsFirst ==
    \A c \in Calls : (tool[c].name \in ToolNames /\ BadShape(tool[c])) =>
        /\ tool[c].state = "threw"
        /\ tool[c].error.name = "ZodError"
        /\ ~Started(c)
        /\ fetched[c] = <<>>
        /\ console[c] = <<>>

\* query-tickets with limit 3/2 was refused
C7_Witness ==
    \E c \in Calls : /\ tool[c].name = "query-tickets"
                     /\ Get(tool[c].input, "limit") = Frac(3, 2)
                     /\ tool[c].state = "threw"

\* C8: every fetch carries the header Authorization: Bearer <credential>, the
\* credential being OPSORCH_CORE_TOKEN when set and not empty, "demo" otherwise.
C8_BearerAlways ==
    \A c \in Calls : \A i \in 1..Len(fetched[c]) :
        LET h == fetched[c][i].headers IN
        /\ "Authorization" \in Keys(h)
        /\ Get(h, "Authorization") =
              Str("Bearer " \o (IF env.token.set /\ env.token.val # ""
                                THEN env.token.val ELSE "demo"))

\* OPSORCH_CORE_TOKEN is set to the empty string and the request says demo
C8_Witness ==
    \E c \in Calls : /\ env.token = Set("")
                     /\ Len(fetched[c]) = 1
                     /\ Get(fetched[c][1].headers, "Authorization") = Str("Bearer demo")

\* pathname with the leading separator
Normalized(pathname) ==
    IF Len(pathname) > 0 /\ Head(pathname) = "/" THEN pathname ELSE <<"/">> \o pathname

PostWithBody(c) == Started(c) /\ args[c].method = "POST" /\ args[c].body.k = "obj"

\* the body of fetch f parses to a value deep-equal to b
RoundTrips(f, b) ==
    /\ f.body.k = "text"
    /\ JSONParse(f.body.v).ok
    /\ DeepEqual(JSONParse(f.body.v).val, b)

\* C9 (as stated): a POST with body b sends its single outbound call to the URL
\* base + normalized path, with method POST and a body that parses back to b.
C9_AsStated ==
    \A c \in Calls : PostWithBody(c) =>
        /\ Len(fetched[c]) = 1
        /\ fetched[c][1].url = getCoreURL \o Concat(Normalized(args[c].pathname))
        /\ fetched[c][1].method = "POST"
        /\ RoundTrips(fetched[c][1], args[c].body)

\* C9 (amended): a POST with a JSON body b sends no outbound call when
\* OPSORCH_CORE_URL does not parse as a URL, and otherwise exactly one, to the
\* base URL with its path replaced by the normalized path (base + normalized
\* path when the base URL has no path of its own), with method POST and a
\* serialized body that parses back to a value deep-equal to b.
C9_PostRoundTrip ==
    \A c \in Calls : PostWithBody(c) =>
        IF ParseURL(getCoreURL).ok
        THEN /\ Len(fetched[c]) = 1
             /\ fetched[c][1].url = ParseURL(getCoreURL).origin
                                    \o Concat(SetPathname(Normalized(args[c].pathname)))
             /\ fetched[c][1].method = "POST"
             /\ RoundTrips(fetched[c][1], args[c].body)
        ELSE fetched[c] = <<>>

\* the team query of the tests went out, to the base URL that has a path
C9_Witness ==
    \E c \in Calls : /\ args[c].body = TeamQuery
                     /\ env.url = Set(UrlPrefixed)
                     /\ Len(fetched[c]) = 1
                     /\ fetched[c][1].url = "http://core.internal:8080/teams/query"
                     /\ RoundTrips(fetched[c][1], TeamQuery)

\* C10 (as stated): a coreRequest call with method GET hands fetch a null body.
C10_AsStated ==
    \A c \in Calls : (Started(c) /\ args[c].method = "GET") =>
        \A i \in 1..Len(fetched[c]) : fetched[c][i].body.k = "null"

\* C10 (amended): no GET request goes out with a body: every registered tool
\* that uses GET, and every coreRequest GET call made without a body, hands
\* fetch a null body; a coreRequest GET call made with a body hands fetch the
\* serialized body, and fetch refuses the request without sending it.
C10_GetSendsNoBody ==
    \A c \in Calls : \A i \in 1..Len(fetched[c]) :
        fetched[c][i].method = "GET" =>
            /\ (tool[c].name \in ToolNames \/ args[c].body.k = "undefined")
                  => fetched[c][i].body.k = "null"
            /\ fetched[c][i].body.k # "null"
                  => (~fetched[c][i].sent /\ res[c] = NoResponse)

\* get-incident succeeded with a request that had no body
C10_Witness ==
    \E c \in Calls : /\ tool[c].name = "get-incident"
                     /\ Succeeded(c)
                     /\ fetched[c][1].method = "GET"
                     /\ fetched[c][1].body.k = "null"

\* C11: a 2xx response with an empty body makes the call resolve to undefined:
\* the call does not fail, and a tool handler returns to its caller.
C11_EmptyBodyResolvesUndefined ==
    \A c \in Calls : (res[c].read /\ ResponseOk(res[c]) /\ res[c].text = <<>>) =>
        /\ outcome[c] = Resolved(Undefined)
        /\ tool[c].state = "returned"
        /\ CountLevel(console[c], "error") = 0

\* a call answered 200 with no body has resolved to undefined
C11_Witness ==
    \E c \in Calls : /\ res[c].read /\ res[c].status = 200 /\ res[c].text = <<>>
                     /\ outcome[c].kind = "value"
                     /\ outcome[c].value = Undefined

\* a text is a JSON text when it is the serialization of a JSON value
IsJSONText(text) == \E v \in Payloads : NoWs(text) = JSONStringify(v, 0).v

\* C12: a response whose body is not empty and not valid JSON makes the call
\* fail with the parse error, which reaches the caller of coreRequest and the
\* caller of the tool; the call never resolves, whatever the status code.
C12_ParseFailurePropagates ==
    \A c \in Calls : (res[c].read /\ Len(res[c].text) > 0 /\ ~IsJSONText(res[c].text)) =>
        /\ outcome[c].kind = "error"
        /\ outcome[c].error.name = "SyntaxError"
        /\ tool[c].state = "threw"
        /\ tool[c].error = outcome[c].error
        /\ tool[c].result = NoEnvelope

\* a 200 response with a JSON text cut short has failed the call
C12_Witness ==
    \E c \in Calls : /\ res[c].read /\ res[c].status = 200
                     /\ res[c].text = <<P("{"), Str("message"), P(":")>>
                     /\ outcome[c].error.name = "SyntaxError"

\* C13: a 2xx response whose body is the JSON text of a value J makes the call
\* resolve to J itself: deep-equal to J, elements and properties in the order
\* of the text; a tool handler hands the same value on as structuredContent;
\* the body [] resolves to the empty array, and asContent of it has the empty
\* array as structuredContent.
C13_ResolvesToBody ==
    \A c \in Calls : \A J \in Payloads :
        (res[c].read /\ ResponseOk(res[c]) /\ res[c].text = JSONStringify(J, 0).v) =>
            /\ outcome[c].kind = "value"
            /\ DeepEqual(outcome[c].value, J)
            /\ outcome[c].value = J
            /\ tool[c].name \in ToolNames => tool[c].result.structuredContent = J
            /\ J = Arr(<<>>) => asContent(outcome[c].value).structuredContent = Arr(<<>>)

\* a tool answered 200 [] has returned the empty array
C13_Witness ==
    \E c \in Calls :
        /\ res[c].read /\ res[c].status = 200
        /\ res[c].text = <<P("["), P("]")>>
        /\ tool[c].name \in ToolNames
        /\ outcome[c].value = Arr(<<>>)
        /\ tool[c].result.structuredContent = Arr(<<>>)

\* a path none of whose segments is "." or "..", free of "?", "#" and spaces
PlainPath(p) ==
    /\ \A i \in 1..Len(p) : p[i] \notin {".", "..", "?", "#", " "}

\* C14 (as stated): buildURL(p) equals buildURL("/" + p) for a path p without
\* the leading separator, and the path component of the built URL is the
\* normalized path.
C14_AsStated ==
    \A c \in Calls : (Started(c) /\ Len(fetched[c]) = 1) =>
        LET p == args[c].pathname IN
        /\ ~StartsWithSlash(p) => buildURL(p) = buildURL(<<"/">> \o p)
        /\ fetched[c][1].url = ParseURL(getCoreURL).origin \o Concat(Normalized(p))

\* C14 (amended): buildURL(p) equals buildURL("/" + p) for a path p without the
\* leading separator; the built URL is the origin of the base URL followed by
\* the normalized path as the URL parser rewrites it: the segments "." and
\* ".." are resolved away and "?", "#" and spaces are percent-encoded, so the
\* path component is the normalized path itself for a path that has none of
\* them; with the default base URL, health and /health both give
\* http://localhost:8080/health.
C14_BuildURLNormalizes ==
    \A c \in Calls : (Started(c) /\ Len(fetched[c]) = 1) =>
        LET p == args[c].pathname
            url == fetched[c][1].url
        IN /\ ~StartsWithSlash(p) => buildURL(p) = buildURL(<<"/">> \o p)
           /\ url = buildURL(Normalized(p)).href
           /\ url = ParseURL(getCoreURL).origin \o Concat(SetPathname(Normalized(p)))
           /\ PlainPath(p) => url = ParseURL(getCoreURL).origin \o Concat(Normalized(p))
           /\ (~env.url.set /\ p \in {<<"health">>, <<"/", "health">>})
                 => url = "http://localhost:8080/health"

\* the path health, given without the separator, went to base + /health, and
\* so would /health
C14_Witness ==
    \E c \in Calls : /\ args[c].pathname = <<"health">>
                     /\ ~env.url.set
                     /\ Len(fetched[c]) = 1
                     /\ fetched[c][1].url = "http://localhost:8080/health"
                     /\ buildURL(<<"/", "health">>).href = fetched[c][1].url

ToolReturned(c) == tool[c].name \in ToolNames /\ tool[c].state = "returned"

\* C15: the envelope a tool handler returns for the value v of its call has v
\* itself as structuredContent; its text is v when v is a string, and
\* otherwise what JSON.stringify(v, null, 2) gives: for a JSON value, a text
\* that parses back to v, is the compact serialization but for its line
\* breaks and spaces, and has each element or property of a non-empty array or
\* object on a line of its own, indented by two spaces per level;
\* asContent({a:1}) has the text { "a": 1 } over three lines.
C15_EnvelopeOfValue ==
    /\ asContent(Obj(<< <<"a", Num(1)>> >>)).content[1].text.v
          = <<P("{"), Ws(2), Str("a"), P(":"), Sp, Num(1), Ws(0), P("}")>>
    /\ \A c \in Calls : ToolReturned(c) =>
          LET v == outcome[c].value
              text == tool[c].result.content[1].text
          IN /\ tool[c].result.structuredContent = v
             /\ v.k = "str" => text = v
             /\ v.k # "str" => text = JSONStringify(v, 2)
             /\ v.k \notin {"str", "undefined"} =>
                   /\ text.k = "text"
                   /\ JSONParse(text.v) = [ok |-> TRUE, val |-> v]
                   /\ NoWs(text.v) = JSONStringify(v, 0).v
                   /\ (v.k \in {"arr", "obj"} /\ Len(v.v) > 0) =>
                         /\ text.v[2] = Ws(2)
                         /\ text.v[Len(text.v) - 1] = Ws(0)

\* a tool has returned the envelope of the team list, indented three levels deep
C15_Witness ==
    \E c \in Calls : /\ ToolReturned(c)
                     /\ tool[c].result.structuredContent = TeamData
                     /\ tool[c].result.content[1].text.k = "text"
                     /\ Ws(6) \in {tool[c].result.content[1].text.v[i] :
                                     i \in 1..Len(tool[c].result.content[1].text.v)}

\* the text of an envelope is a string: the string value itself, or a
\* serialization
IsStringText(text) == text.k \in {"str", "text"}

\* C16 (as stated): for every value a successful call returns, the undefined of
\* an empty body included, the handler returns an envelope with exactly one
\* content item, of type text, whose text is a string.
C16_AsStated ==
    \A c \in Calls : (tool[c].name \in ToolNames /\ Succeeded(c)) =>
        /\ tool[c].state = "returned"
        /\ Len(tool[c].result.content) = 1
        /\ tool[c].result.content[1].type = "text"
        /\ IsStringText(tool[c].result.content[1].text)

\* a row of the table of tools: name, method, and the path as the tokens
\* before and after the id or capability
Row(name, method, before, after) ==
    [name |-> name, method |-> method, before |-> before, after |-> after]

InterfaceTable ==
    { Row("query-incidents", "POST", <<"/", "incidents", "/", "query">>, <<>>),
      Row("get-incident", "GET", <<"/", "incidents", "/">>, <<>>),
      Row("get-incident-timeline", "GET", <<"/", "incidents", "/">>, <<"/", "timeline">>),
      Row("query-alerts", "POST", <<"/", "alerts", "/", "query">>, <<>>),
      Row("query-logs", "POST", <<"/", "logs", "/", "query">>, <<>>),
      Row("query-metrics", "POST", <<"/", "metrics", "/", "query">>, <<>>),
      Row("describe-metrics", "POST", <<"/", "metrics", "/", "describe">>, <<>>),
      Row("query-tickets", "POST", <<"/", "tickets", "/", "query">>, <<>>),
      Row("get-ticket", "GET", <<"/", "tickets", "/">>, <<>>),
      Row("query-deployments", "POST", <<"/", "deployments", "/", "query">>, <<>>),
      Row("get-deployment", "GET", <<"/", "deployments", "/">>, <<>>),
      Row("query-services", "POST", <<"/", "services", "/", "query">>, <<>>),
      Row("query-teams", "POST", <<"/", "teams", "/", "query">>, <<>>),
      Row("get-team", "GET", <<"/", "teams", "/">>, <<>>),
      Row("get-team-members", "GET", <<"/", "teams", "/">>, <<"/", "members">>),
      Row("list-providers", "GET", <<"/", "providers", "/">>, <<>>) }

TableNames == {r.name : r \in InterfaceTable}
RowNamed(name) == CHOOSE r \in InterfaceTable : r.name = name

\* path p is before, then possibly an id or capability, then after
FitsRow(p, r) ==
    LET nb == Len(r.before)
        na == Len(r.after)
    IN /\ Len(p) >= nb + na
       /\ SubSeq(p, 1, nb) = r.before
       /\ SubSeq(p, Len(p) - na + 1, Len(p)) = r.after

\* C17 (as stated): a call of any tool of the table finds the tool registered
\* under that name, its request goes out with the method and on the path of the
\* table, and no two registered tools share a name.
C17_AsStated ==
    /\ Cardinality(ToolNames) = Len(RegisteredTools)
    /\ \A c \in Calls : tool[c].name \in TableNames =>
          /\ tool[c].name \in ToolNames
          /\ tool[c].error.name # "McpError"
          /\ Started(c) => /\ args[c].method = RowNamed(tool[c].name).method
                           /\ FitsRow(args[c].pathname, RowNamed(tool[c].name))

\* the tools of the earlier revision that create, update or send
MutationTools == {"create-incident", "update-incident", "append-incident-timeline",
                  "create-ticket", "update-ticket", "send-message"}

\* a request that reads: a GET, or a POST to a query or describe endpoint
ReadOnlyRequest(method, pathname) ==
    \/ method = "GET"
    \/ /\ method = "POST"
       /\ Len(pathname) > 0
       /\ pathname[Len(pathname)] \in {"query", "describe"}

ValidToolCall(c) ==
    /\ tool[c].name \in ToolNames
    /\ ZodParse(ToolNamed(tool[c].name).inputSchema, tool[c].input).ok

\* C19: the handler of a tool call with valid input calls coreRequest exactly
\* once; when that call has resolved the handler has returned asContent of the
\* value; when it has failed the handler has returned no envelope and has
\* thrown the error of the call.
C19_OnePipelineCallPerToolCall ==
    \A c \in Calls : ValidToolCall(c) =>
        /\ tool[c].calls = 1
        /\ Started(c)
        /\ outcome[c].kind = "pending" => tool[c].state = "running"
        /\ outcome[c].kind = "value" =>
              /\ tool[c].state = "returned"
              /\ tool[c].result = asContent(outcome[c].value)
              /\ tool[c].error = NoError
        /\ outcome[c].kind = "error" =>
              /\ tool[c].state = "threw"
              /\ tool[c].result = NoEnvelope
              /\ tool[c].error = outcome[c].error

\* a valid query-metrics call failed on a 404 and threw the Core error
C19_Witness ==
    \E c \in Calls : /\ tool[c].name = "query-metrics"
                     /\ ValidToolCall(c)
                     /\ tool[c].calls = 1
                     /\ res[c].status = 404
                     /\ tool[c].state = "threw"
                     /\ tool[c].error.name = "Error"

\* the request and response state of call c, its clock left out
CallState(c) ==
    <<pc[c], args[c], timer[c], failureLogged[c], fetched[c], res[c], outcome[c],
      console[c], tool[c]>>

\* the state of the other call is the same after the step
OthersKept(c) == \A d \in Calls \ {c} : CallState(d)' = CallState(d)

\* what call c has made of its own request and response
OwnOutcome(c) ==
    /\ \A i \in 1..Len(fetched[c]) :
          /\ fetched[c][i].url = buildURL(args[c].pathname).href
          /\ fetched[c][i].method = args[c].method
          /\ fetched[c][i].body = RequestBody(args[c].body)
    /\ outcome[c].kind = "value" =>
          /\ res[c].read /\ ResponseOk(res[c])
          /\ outcome[c].value = ParseBody(res[c].text).val
    /\ failureLogged[c] = (res[c].read /\ NonOk(c) /\ ParseBody(res[c].text).ok)
    /\ failureLogged[c] =>
          outcome[c].error.message
             = CoreErrorMessage(res[c].status,
                                ExpectedMessage(res[c].text, res[c].statusText))
    /\ CountLevel(console[c], "error") = (IF outcome[c].kind = "error" THEN 1 ELSE 0)
    /\ timer[c].state = "fired" =>
          /\ outcome[c] = Rejected(AbortError)
          /\ elapsed[c] >= timer[c].delay
    /\ outcome[c] = Rejected(AbortError) => timer[c].state = "fired"

\* C20: of two calls in flight at the same time each sends its own request
\* and settles with the response to it, has its own failureLogged flag, log
\* lines and timer; a step of one call (its timer firing in particular) leaves
\* the request and response state of the other call as it was, so a timeout
\* aborts the request of its own call only.
C20_CallsAreIndependent ==
    /\ [](\A c \in Calls : OwnOutcome(c))
    /\ [][\A c \in Calls : CallState(c)' # CallState(c) => OthersKept(c)]_vars
    /\ [][\A c \in Calls :
            (timer[c].state = "armed" /\ timer'[c].state = "fired") =>
                \A d \in Calls \ {c} :
                    /\ Running(d) => (Running(d)' /\ timer'[d].state = "armed")
                    /\ outcome'[d] = outcome[d]]_vars

\* the timer of one call has fired and aborted it while the other call, begun
\* a millisecond later with a different request, is still in flight
C20_Witness ==
    \E c, d \in Calls :
        /\ c # d
        /\ timer[c].state = "fired" /\ outcome[c] = Rejected(AbortError)
        /\ Running(d) /\ timer[d].state = "armed"
        /\ elapsed[d] = timer[d].delay - 1
        /\ args[c] # args[d]


(***************************************************************************)
(* C27: the timeout timer of a call is cleared on every exit path.  A call *)
(* that has resolved or rejected has no pending timer: its timer was       *)
(* cleared, or it fired while the call was in flight and the call was      *)
(* rejected with the abort; a pending timer belongs to a call in flight.   *)
(***************************************************************************)
C27_TimerClearedOnExit ==
    \A c \in Calls :
        /\ pc[c] \in {"resolved", "rejected"} => timer[c].state \in {"cleared", "fired"}
        /\ timer[c].state = "armed" => Running(c)
        /\ timer[c].state = "fired" => /\ pc[c] = "rejected"
                                       /\ outcome[c] = Rejected(AbortError)

\* a call rejected by a failure other than the timeout, after the body was
\* read, with its timer cleared
C27_Witness ==
    \E c \in Calls : /\ pc[c] = "rejected"
                      /\ res[c].read
                      /\ outcome[c].error.name = "SyntaxError"
                      /\ timer[c].state = "cleared"

(***************************************************************************)
(* C30: describe-metrics sends the fields of scope (service, team,         *)
(* environment) as the top-level JSON body of a POST to /metrics/describe, *)
(* the empty object when scope is absent, and never a request without a    *)
(* body.                                                                   *)
(***************************************************************************)
ScopeFields(input) ==
    LET scope == Get(input, "scope") IN
    IF scope.k # "obj" THEN Obj(<<>>)
    ELSE Obj(SelectSeq(scope.v, LAMBDA kv : kv[1] \in {"service", "team", "environment"}))

C30_DescribeMetricsBody ==
    \A c \in Calls :
        (tool[c].name = "describe-metrics" /\ tool[c].calls > 0) =>
            /\ args[c].pathname = <<"/", "metrics", "/", "describe">>
            /\ args[c].method = "POST"
            /\ args[c].body = ScopeFields(tool[c].input)
            /\ \A i \in 1..Len(fetched[c]) :
                   /\ fetched[c][i].method = "POST"
                   /\ fetched[c][i].sent
                   /\ fetched[c][i].body = JSONStringify(ScopeFields(tool[c].input), 0)
                   /\ fetched[c][i].body.k # "null"

\* describe-metrics called with a scope: the request carries the scope's
\* service at the top level
C30_Witness ==
    \E c \in Calls :
        /\ tool[c].name = "describe-metrics"
        /\ Get(tool[c].input, "scope").k = "obj"
        /\ Len(fetched[c]) = 1
        /\ fetched[c][1].body = JSONStringify(Obj(<< <<"service", Str("checkout")>> >>), 0)
        /\ pc[c] = "resolved"

(***************************************************************************)
(* C28 (as stated): the id, or the capability, is encoded into exactly one *)
(* path segment of the request URL, for every id, ids holding "/", "?",    *)
(* "#" or ".." included: the URL is the origin, the path of the tool, one  *)
(* segment that has no separator and decodes to the id, and what follows.  *)
(***************************************************************************)
DecodeURIComponentChar(ch) ==
    CASE ch = "%2F" -> "/"
      [] ch = "%3F" -> "?"
      [] ch = "%23" -> "#"
      [] ch = "%20" -> " "
      [] OTHER -> ch

PathParam(c) ==
    IF tool[c].name = "list-providers" THEN Get(tool[c].input, "capability").v
    ELSE Get(tool[c].input, "id").v

C28_AsStated ==
    \A c \in Calls :
        (/\ tool[c].name \in {"get-incident", "get-incident-timeline", "get-ticket",
                              "list-providers"}
         /\ Len(fetched[c]) > 0) =>
            LET before == ToolNamed(tool[c].name).path
                after == IF tool[c].name = "get-incident-timeline"
                         THEN <<"/", "timeline">> ELSE <<>>
                seg == encodeURIComponent(PathParam(c))
            IN /\ Len(seg) > 0
               /\ \A i \in 1..Len(seg) : seg[i] # "/"
               /\ Concat([i \in 1..Len(seg) |-> DecodeURIComponentChar(seg[i])])
                     = PathParam(c)
               /\ fetched[c][1].url
                     = ParseURL(getCoreURL).origin \o Concat(before \o seg \o after)

(***************************************************************************)
(* C23 (as stated): at the default verbosity every call to Core that has   *)
(* ended, successful or failed, has written a log entry that records the   *)
(* method, the path, the duration and the status of the call.              *)
(***************************************************************************)
C23_AsStated ==
    \A c \in Calls :
        (pc[c] \in {"resolved", "rejected"} /\ currentLevel = "info") =>
            \E i \in 1..Len(console[c]) :
                LET m == console[c][i].meta IN
                /\ {"method", "pathname", "durationMs", "status"} \subseteq DOMAIN m
                /\ m.method = args[c].method
                /\ m.pathname = args[c].pathname
                /\ m.durationMs = elapsed[c]
                /\ m.status = res[c].status

(***************************************************************************)
(* C24 (as stated): request and response payloads are logged only at debug *)
(* verbosity: when the log level is info, warn or error, no entry of a     *)
(* call contains the request body or the response payload.                 *)
(***************************************************************************)
HasPayloadField(l) == "body" \in DOMAIN l.meta \/ "response" \in DOMAIN l.meta

\* the entry of the catch block whose error quotes the text of the response
QuotesResponseText(c, l) ==
    /\ l.message = "OpsOrch Core request encountered an error"
    /\ res[c].read
    /\ Len(res[c].text) > 0
    /\ res[c].text[1].k = "raw"
    /\ l.meta.error.name = "SyntaxError"
    /\ l.meta.error.message
         = "Unexpected token, \"" \o res[c].text[1].v \o "\" is not valid JSON"

\* the entry of a refused call whose error is the message property of the
\* response payload
CarriesResponseMessage(c, l) ==
    /\ l.message = "OpsOrch Core call failed"
    /\ \E v \in Payloads :
          /\ res[c].text = JSONStringify(v, 0).v
          /\ v.k = "obj"
          /\ Get(v, "message").k = "str"
          /\ l.meta.error = Get(v, "message").v

C24_AsStated ==
    \A c \in Calls : \A i \in 1..Len(console[c]) :
        currentLevel \in {"info", "warn", "error"} =>
            /\ ~HasPayloadField(console[c][i])
            /\ ~QuotesResponseText(c, console[c][i])
            /\ ~CarriesResponseMessage(c, console[c][i])

(***************************************************************************)
(* C24 (amended): the request body and the parsed response payload are     *)
(* logged, as the fields body and response, only at debug verbosity.  When *)
(* the log level is info, warn or error an entry has no fields but method, *)
(* pathname, status, durationMs and error, and no entry contains the       *)
(* request body; the response shows in the error field of the entry of a   *)
(* failed call only: the message property of the body of a refused call,   *)
(* or the error thrown, which for a body that is not JSON is the parse     *)
(* error whose message quotes the body text.                               *)
(***************************************************************************)
C24_PayloadFieldsOnlyAtDebug ==
    \A c \in Calls : \A i \in 1..Len(console[c]) :
        LET l == console[c][i] IN
        /\ HasPayloadField(l) => (l.level = "debug" /\ currentLevel = "debug")
        /\ currentLevel \in {"info", "warn", "error"} =>
              /\ DOMAIN l.meta \subseteq {"method", "pathname", "status", "durationMs", "error"}
              /\ (l.level \in {"info", "warn"}) => "error" \notin DOMAIN l.meta
              /\ l.message = "OpsOrch Core request encountered an error"
                    => l.meta.error = outcome[c].error
              /\ l.message = "OpsOrch Core call failed"
                    => \/ l.meta.error = res[c].statusText
                       \/ CarriesResponseMessage(c, l)

\* at the default level a POST with a body was answered with the team list:
\* the one entry of the call has neither of them
C24_Witness ==
    \E c \in Calls :
        /\ currentLevel = "info"
        /\ args[c].body.k = "obj"
        /\ pc[c] = "resolved"
        /\ outcome[c].value = TeamData
        /\ Len(console[c]) = 1
        /\ ~HasPayloadField(console[c][1])

(***************************************************************************)
(* C25 (as stated): a log call at level L is emitted if and only if L is   *)
(* at or above the configured level in the order debug < info < warn <     *)
(* error; an unset or unrecognized value, compared case-insensitively,     *)
(* configures info; error entries are emitted under every configuration.   *)
(***************************************************************************)
LevelRank(l) ==
    CASE l = "debug" -> 1
      [] l = "info" -> 2
      [] l = "warn" -> 3
      [] l = "error" -> 4

ConfiguredLevel ==
    IF env.level.set /\ ToLowerCase(env.level.val) \in {"debug", "info", "warn", "error"}
    THEN ToLowerCase(env.level.val)
    ELSE "info"

Emits(l) == LevelRank(l) >= LevelRank(ConfiguredLevel)

Wrote(c, message) == \E i \in 1..Len(console[c]) : console[c][i].message = message

C25_AsStated ==
    \A c \in Calls :
        /\ Len(fetched[c]) > 0 => (Wrote(c, "Calling OpsOrch Core") <=> Emits("debug"))
        /\ pc[c] = "resolved" =>
              /\ Wrote(c, "OpsOrch Core call succeeded") <=> Emits("info")
              /\ Wrote(c, "OpsOrch Core response payload") <=> Emits("debug")
        /\ pc[c] = "rejected" =>
              \E i \in 1..Len(console[c]) : console[c][i].level = "error"

(***************************************************************************)
(* C29: coreRequest reads the base URL, the credential and the timeout     *)
(* when the call starts, before its first suspension, and never writes     *)
(* them: a step of a call leaves the configuration as it is, a call that   *)
(* starts uses the configuration of that moment, and a change of the       *)
(* configuration while a call is in flight changes neither the URL, the    *)
(* headers nor the timeout of that call, only those of later calls.        *)
(***************************************************************************)
CallVars ==
    <<pc, args, timer, elapsed, failureLogged, fetched, res, outcome, console, tool, events>>

C29_NeverWritesConfig == CallVars' # CallVars => env' = env

C29_ReadAtCallStart ==
    \A c \in Calls :
        (~Running(c) /\ Running(c)') =>
            /\ fetched'[c][1].url = buildURL(args'[c].pathname).href
            /\ fetched'[c][1].headers = RequestHeaders
            /\ timer'[c].delay = TimerDelay(getCoreTimeoutMs)

C29_KeptInFlight ==
    \A c \in Calls :
        Running(c) => /\ Len(fetched'[c]) = 1
                      /\ fetched'[c][1] = fetched[c][1]
                      /\ timer'[c].delay = timer[c].delay

C29_ConfigReadAtCallStart ==
    [][C29_NeverWritesConfig /\ C29_ReadAtCallStart /\ C29_KeptInFlight]_vars

\* the body of a call is being read under a configuration that differs in
\* URL, credential and timeout from the one the call started with
C29_Witness ==
    \E c \in Calls :
        /\ pc[c] = "reading"
        /\ fetched[c][1].url # buildURL(args[c].pathname).href
        /\ fetched[c][1].headers # RequestHeaders
        /\ timer[c].delay # TimerDelay(getCoreTimeoutMs)

(***************************************************************************)
(* C21: the HTTP endpoint builds a server instance and a transport of its  *)
(* own for each POST /mcp: every request received has a server and a       *)
(* transport that no other request has and that are not those of stdio,    *)
(* and the server is connected to the transport of its request.            *)
(***************************************************************************)
Received == {r \in Requests : boot.requests[r].state # "none"}

C21_FreshInstancePerRequest ==
    /\ Len(boot.servers) > 0 => boot.servers[1].transport = 1
    /\ Received # {} =>
          /\ Len(boot.servers) = 1 + Cardinality(Received)
          /\ Len(boot.transports) = 1 + Cardinality(Received)
    /\ \A r \in Received :
          LET s == boot.requests[r].server
              t == boot.requests[r].transport
          IN /\ s \in 2..Len(boot.servers)
             /\ t \in 2..Len(boot.transports)
             /\ boot.transports[t].kind = "http"
             /\ boot.servers[s].transport = t
             /\ \A q \in Received \ {r} : /\ boot.requests[q].server # s
                                           /\ boot.requests[q].transport # t

\* two requests are being handled at once, a third has been closed
C21_Witness ==
    \E r, q, k \in Requests :
        /\ r # q
        /\ boot.requests[r].state = "connected"
        /\ boot.requests[q].state = "connected"
        /\ boot.requests[k].state = "closed"
        /\ boot.requests[r].server # boot.requests[q].server

(***************************************************************************)
(* C22 (as stated): at startup the stdio transport is always connected,    *)
(* and before any HTTP listener is started; the HTTP listener is started   *)
(* if and only if the configured port is a number greater than 0, the port *)
(* being 7070 when MCP_HTTP_PORT is unset, and MCP_HTTP_PORT=0 starts no   *)
(* listener.                                                               *)
(***************************************************************************)
StartupOver == boot.pc \in {"serving", "exited"}
StdioConnected ==
    /\ Len(boot.servers) > 0
    /\ boot.servers[1].transport = 1
    /\ boot.transports[1].kind = "stdio"

StdioFirst ==
    /\ boot.pc \in {"stdio-ready", "serving", "exited"} => StdioConnected
    /\ \A i \in 1..Len(boot.log) :
          boot.log[i] = "OpsOrch MCP HTTP listening"
              => \E j \in 1..(i - 1) : boot.log[j] = "OpsOrch MCP stdio transport ready"
    /\ boot.listen > 0 => StdioConnected

C22_AsStated ==
    /\ StdioFirst
    /\ StartupOver =>
          /\ boot.listen > 0 <=> PortEnabled(httpPort(boot.port))
          /\ ~boot.port.set => boot.listen = 7070
          /\ boot.port = Set("0") => boot.listen = 0

(***************************************************************************)
(* C22 (amended): at startup the stdio transport is always connected, and  *)
(* before any HTTP listener is started; listen is called if and only if    *)
(* the configured port is a number greater than 0, the port being 7070     *)
(* when MCP_HTTP_PORT is unset or empty, and the listener is started only  *)
(* when that number is an integer no greater than 65535: for another       *)
(* number greater than 0 listen throws, and the process logs the failure   *)
(* and exits with code 1; MCP_HTTP_PORT=0 starts no listener.              *)
(***************************************************************************)
C22_ListenerIffLegalPositivePort ==
    /\ StdioFirst
    /\ StartupOver =>
          LET port == httpPort(boot.port) IN
          /\ boot.listen > 0 <=> (PortEnabled(port) /\ LegalPort(port))
          /\ boot.listen > 0 => boot.listen = port.n
          /\ boot.pc = "exited" <=> (PortEnabled(port) /\ ~LegalPort(port))
          /\ boot.pc = "exited" =>
                /\ boot.exit = 1
                /\ boot.log[Len(boot.log)] = "Failed to start opsorch-mcp server"
          /\ (~boot.port.set \/ boot.port.val = "") => boot.listen = 7070
          /\ boot.port = Set("0") => (boot.listen = 0 /\ boot.pc = "serving")

\* with MCP_HTTP_PORT=70000 the process has exited after connecting stdio
C22_Witness ==
    /\ boot.port = Set("70000")
    /\ boot.pc = "exited"
    /\ StdioConnected
    /\ boot.listen = 0

(***************************************************************************)
(* C26: the entries of a call are written in a fixed order relative to the *)
(* steps of the call.  The debug entry that announces the call is written  *)
(* before the request is handed to fetch; on success the info entry is     *)
(* written after the response was read and parsed and before the debug     *)
(* entry with the payload, both before the call resolves; on failure the   *)
(* error entry is written before the call rejects.                         *)
(***************************************************************************)
Happened(c, ev) == \E i \in 1..Len(events[c]) : events[c][i] = ev

\* every a of the call comes before every b
Precedes(c, a, b) ==
    \A i, j \in 1..Len(events[c]) : (events[c][i] = a /\ events[c][j] = b) => i < j

LogEvents(c) == SelectSeq(events[c], LAMBDA ev : ev.e = "log")

ErrorEntries ==
    {"OpsOrch Core call failed", "OpsOrch Core request encountered an error"}

C26_EntriesOrdered ==
    \A c \in Calls :
        \* the log events are the lines of the console, in their order
        /\ Len(LogEvents(c)) = Len(console[c])
        /\ \A i \in 1..Len(console[c]) : LogEvents(c)[i] = LogEv(console[c][i].message)
        /\ Precedes(c, LogEv("Calling OpsOrch Core"), Ev("fetch"))
        /\ (Happened(c, Ev("fetch")) /\ currentLevel = "debug")
              => Happened(c, LogEv("Calling OpsOrch Core"))
        /\ pc[c] = "resolved" =>
              /\ Happened(c, Ev("resolved"))
              /\ Precedes(c, Ev("response"), Ev("text"))
              /\ Precedes(c, Ev("text"), LogEv("OpsOrch Core call succeeded"))
              /\ Precedes(c, Ev("parsed"), LogEv("OpsOrch Core call succeeded"))
              /\ Precedes(c, LogEv("OpsOrch Core call succeeded"),
                             LogEv("OpsOrch Core response payload"))
              /\ Precedes(c, LogEv("OpsOrch Core call succeeded"), Ev("resolved"))
              /\ Precedes(c, LogEv("OpsOrch Core response payload"), Ev("resolved"))
              /\ currentLevel \in {"debug", "info"}
                    => Happened(c, LogEv("OpsOrch Core call succeeded"))
              /\ currentLevel = "debug"
                    => Happened(c, LogEv("OpsOrch Core response payload"))
        /\ pc[c] = "rejected" =>
              /\ Happened(c, Ev("rejected"))
              /\ \E m \in ErrorEntries : Happened(c, LogEv(m))
              /\ \A m \in ErrorEntries : Precedes(c, LogEv(m), Ev("rejected"))
              /\ events[c][Len(events[c])] = Ev("rejected")

\* a call at debug level has resolved: announced, sent, answered, read,
\* parsed, both entries written, returned
C26_Witness ==
    \E c \in Calls :
        /\ pc[c] = "resolved"
        /\ events[c] = << LogEv("Calling OpsOrch Core"), Ev("fetch"), Ev("response"),
                          Ev("text"), Ev("parsed"),
                          LogEv("OpsOrch Core call succeeded"),
                          LogEv("OpsOrch Core response payload"), Ev("resolved") >>

====
